---- MODULE Spec2Model ----
(***************************************************************************)
(* Alignment pipeline of align-images-for-lenticular:                      *)
(*   src/src/utils/imageTransform.ts            (translation solvers)      *)
(*   src/src/components/TextureAtlasDialog.tsx  (filter, rotation search,  *)
(*                                               orchestrator)             *)
(*                                                                         *)
(* Number representation.  The program works on IEEE doubles; the model    *)
(* uses exact fixed point:                                                 *)
(*   - widths, heights and region fields are integer pixels;               *)
(*   - translations and canvas positions are in HALF pixels, so that       *)
(*     x + width/2 and width/2 are exact for odd sizes too;                *)
(*   - rotations are in TENTHS of a degree (the step of the search loop);  *)
(*   - scale is an integer factor (1 is 1.0);                              *)
(*   - match distances are integers (Hamming distances are).               *)
(***************************************************************************)
EXTENDS Integers, Sequences, FiniteSets, TLC

VARIABLES
    images,         \* the list handed to an entry point (the caller's array)
    alignedImages,  \* the working copy [...images] of the running entry point
    entry,          \* which entry point runs: "all", "area" or "rotation"
    pc,             \* position of the run inside the entry point
    pending,        \* loop index i of the awaited alignImages call, -1 if none
    detLog,         \* detector/matcher outcomes consumed so far, one per call
    log,            \* console messages that tell a skip or a failure
    fnArg,          \* argument record of the pure function under study
    fnRet,          \* its result, NoResult before the call
    app             \* the React state of App.tsx and its handler in flight

vars == <<images, alignedImages, entry, pc, pending, detLog, log, fnArg, fnRet, app>>


----------------------------------------------------------------------------
(* Fixed-point helpers *)

\* n pixels expressed in half pixels
Px(n) == 2 * n

\* n/2 pixels expressed in half pixels (exact for every integer n)
Half(n) == Px(n) \div 2

Abs(n) == IF n < 0 THEN -n ELSE n

Min(a, b) == IF a < b THEN a ELSE b

\* selectedArea: null
NoArea == [x |-> -1, y |-> -1, width |-> 0, height |-> 0]

HasArea(a) == a # NoArea

NoResult == [none |-> TRUE]

\* the App component is not mounted
NoApp == [none |-> TRUE]

----------------------------------------------------------------------------
(* imageTransform.ts *)

\* mutant: the centre is taken as x + width instead of x + width/2
calculateCenterImageTransform_fullWidth(width, height, currentTransform, selectedArea) ==
    LET translateX == IF HasArea(selectedArea)
                      THEN -((Px(selectedArea.x) + Px(selectedArea.width)) - Half(width))
                      ELSE 0
        translateY == IF HasArea(selectedArea)
                      THEN -((Px(selectedArea.y) + Px(selectedArea.height)) - Half(height))
                      ELSE 0
    IN [scale |-> 1, rotation |-> currentTransform.rotation,
        translateX |-> translateX, translateY |-> translateY]

\* mutant: the centring offset is added to the translation the image had
calculateCenterImageTransform_addsToCurrent(width, height, currentTransform, selectedArea) ==
    LET relativeCenterX == Px(selectedArea.x) + Half(selectedArea.width) - Half(width)
        relativeCenterY == Px(selectedArea.y) + Half(selectedArea.height) - Half(height)
    IN [scale |-> 1, rotation |-> currentTransform.rotation,
        translateX |-> IF HasArea(selectedArea)
                       THEN currentTransform.translateX - relativeCenterX ELSE 0,
        translateY |-> IF HasArea(selectedArea)
                       THEN currentTransform.translateY - relativeCenterY ELSE 0]

calculateCenterImageTransform(width, height, currentTransform, selectedArea) ==
    LET selectedCenterX == Px(selectedArea.x) + Half(selectedArea.width)
        selectedCenterY == Px(selectedArea.y) + Half(selectedArea.height)
        relativeCenterX == selectedCenterX - Half(width)
        relativeCenterY == selectedCenterY - Half(height)
        translateX == IF HasArea(selectedArea) THEN -relativeCenterX ELSE 0
        translateY == IF HasArea(selectedArea) THEN -relativeCenterY ELSE 0
    IN [scale |-> 1, rotation |-> currentTransform.rotation,
        translateX |-> translateX, translateY |-> translateY]

\* mutant: the reference image's translation is left out of its canvas centre
calculateAlignImagesTransform_noRefTranslate(image1Width, image1Height, image1Transform, image2Width, image2Height, image2Transform, image1SelectedArea, image2SelectedArea) ==
    LET both == HasArea(image1SelectedArea) /\ HasArea(image2SelectedArea)
        c1X == (Px(image1SelectedArea.x) + Half(image1SelectedArea.width)) - Half(image1Width)
        c1Y == (Px(image1SelectedArea.y) + Half(image1SelectedArea.height)) - Half(image1Height)
        c2X == (Px(image2SelectedArea.x) + Half(image2SelectedArea.width)) - Half(image2Width)
        c2Y == (Px(image2SelectedArea.y) + Half(image2SelectedArea.height)) - Half(image2Height)
    IN [scale |-> 1, rotation |-> image2Transform.rotation,
        translateX |-> IF both THEN c1X - c2X ELSE 0,
        translateY |-> IF both THEN c1Y - c2Y ELSE 0]

\* mutant: the scale of the image being placed is carried over
calculateAlignImagesTransform_keepScale(image1Width, image1Height, image1Transform, image2Width, image2Height, image2Transform, image1SelectedArea, image2SelectedArea) ==
    LET both == HasArea(image1SelectedArea) /\ HasArea(image2SelectedArea)
        c1X == image1Transform.translateX
               + (Px(image1SelectedArea.x) + Half(image1SelectedArea.width)) - Half(image1Width)
        c1Y == image1Transform.translateY
               + (Px(image1SelectedArea.y) + Half(image1SelectedArea.height)) - Half(image1Height)
        c2X == (Px(image2SelectedArea.x) + Half(image2SelectedArea.width)) - Half(image2Width)
        c2Y == (Px(image2SelectedArea.y) + Half(image2SelectedArea.height)) - Half(image2Height)
    IN [scale |-> image2Transform.scale, rotation |-> image2Transform.rotation,
        translateX |-> IF both THEN c1X - c2X ELSE 0,
        translateY |-> IF both THEN c1Y - c2Y ELSE 0]

\* mutant: the rotation is taken from the reference image
calculateAlignImagesTransform_refRotation(image1Width, image1Height, image1Transform, image2Width, image2Height, image2Transform, image1SelectedArea, image2SelectedArea) ==
    LET both == HasArea(image1SelectedArea) /\ HasArea(image2SelectedArea)
        c1X == image1Transform.translateX
               + (Px(image1SelectedArea.x) + Half(image1SelectedArea.width)) - Half(image1Width)
        c1Y == image1Transform.translateY
               + (Px(image1SelectedArea.y) + Half(image1SelectedArea.height)) - Half(image1Height)
        c2X == (Px(image2SelectedArea.x) + Half(image2SelectedArea.width)) - Half(image2Width)
        c2Y == (Px(image2SelectedArea.y) + Half(image2SelectedArea.height)) - Half(image2Height)
    IN [scale |-> 1, rotation |-> image1Transform.rotation,
        translateX |-> IF both THEN c1X - c2X ELSE 0,
        translateY |-> IF both THEN c1Y - c2Y ELSE 0]

calculateAlignImagesTransform(image1Width, image1Height, image1Transform, image2Width, image2Height, image2Transform, image1SelectedArea, image2SelectedArea) ==
    LET both == HasArea(image1SelectedArea) /\ HasArea(image2SelectedArea)
        image1SelectedCenterX == Px(image1SelectedArea.x) + Half(image1SelectedArea.width)
        image1SelectedCenterY == Px(image1SelectedArea.y) + Half(image1SelectedArea.height)
        image2SelectedCenterX == Px(image2SelectedArea.x) + Half(image2SelectedArea.width)
        image2SelectedCenterY == Px(image2SelectedArea.y) + Half(image2SelectedArea.height)
        \* where the reference region's centre is on the canvas: translation only
        image1CanvasCenterX == image1Transform.translateX
                               + (image1SelectedCenterX - Half(image1Width)) * 1
        image1CanvasCenterY == image1Transform.translateY
                               + (image1SelectedCenterY - Half(image1Height)) * 1
        image2CanvasCenterX == (image2SelectedCenterX - Half(image2Width)) * 1
        image2CanvasCenterY == (image2SelectedCenterY - Half(image2Height)) * 1
        translateX == IF both THEN image1CanvasCenterX - image2CanvasCenterX ELSE 0
        translateY == IF both THEN image1CanvasCenterY - image2CanvasCenterY ELSE 0
    IN [scale |-> 1, rotation |-> image2Transform.rotation,
        translateX |-> translateX, translateY |-> translateY]

----------------------------------------------------------------------------
(* Math.cos / Math.sin in fixed point.  CosTable[k] and SinTable[k] are     *)
(* round(TrigScale * cos) and round(TrigScale * sin) of (k - 301)/10        *)
(* degrees, k = 1..601, i.e. of every tenth of a degree in [-30, 30].       *)

TrigScale == 100000

CosTable ==
    <<86603, 86690, 86777, 86863, 86949, 87036, 87121, 87207, 87292, 87377, 87462, 87546,
      87631, 87715, 87798, 87882, 87965, 88048, 88130, 88213, 88295, 88377, 88458, 88539,
      88620, 88701, 88782, 88862, 88942, 89021, 89101, 89180, 89259, 89337, 89415, 89493,
      89571, 89649, 89726, 89803, 89879, 89956, 90032, 90108, 90183, 90259, 90334, 90408,
      90483, 90557, 90631, 90704, 90778, 90851, 90924, 90996, 91068, 91140, 91212, 91283,
      91355, 91425, 91496, 91566, 91636, 91706, 91775, 91845, 91914, 91982, 92050, 92119,
      92186, 92254, 92321, 92388, 92455, 92521, 92587, 92653, 92718, 92784, 92849, 92913,
      92978, 93042, 93106, 93169, 93232, 93295, 93358, 93420, 93483, 93544, 93606, 93667,
      93728, 93789, 93849, 93909, 93969, 94029, 94088, 94147, 94206, 94264, 94322, 94380,
      94438, 94495, 94552, 94609, 94665, 94721, 94777, 94832, 94888, 94943, 94997, 95052,
      95106, 95159, 95213, 95266, 95319, 95372, 95424, 95476, 95528, 95579, 95630, 95681,
      95732, 95782, 95832, 95882, 95931, 95981, 96029, 96078, 96126, 96174, 96222, 96269,
      96316, 96363, 96410, 96456, 96502, 96547, 96593, 96638, 96682, 96727, 96771, 96815,
      96858, 96902, 96945, 96987, 97030, 97072, 97113, 97155, 97196, 97237, 97278, 97318,
      97358, 97398, 97437, 97476, 97515, 97553, 97592, 97630, 97667, 97705, 97742, 97778,
      97815, 97851, 97887, 97922, 97958, 97992, 98027, 98061, 98096, 98129, 98163, 98196,
      98229, 98261, 98294, 98325, 98357, 98389, 98420, 98450, 98481, 98511, 98541, 98570,
      98600, 98629, 98657, 98686, 98714, 98741, 98769, 98796, 98823, 98849, 98876, 98902,
      98927, 98953, 98978, 99002, 99027, 99051, 99075, 99098, 99122, 99144, 99167, 99189,
      99211, 99233, 99255, 99276, 99297, 99317, 99337, 99357, 99377, 99396, 99415, 99434,
      99452, 99470, 99488, 99506, 99523, 99540, 99556, 99572, 99588, 99604, 99619, 99635,
      99649, 99664, 99678, 99692, 99705, 99719, 99731, 99744, 99756, 99768, 99780, 99792,
      99803, 99813, 99824, 99834, 99844, 99854, 99863, 99872, 99881, 99889, 99897, 99905,
      99912, 99919, 99926, 99933, 99939, 99945, 99951, 99956, 99961, 99966, 99970, 99974,
      99978, 99982, 99985, 99988, 99990, 99993, 99995, 99996, 99998, 99999, 99999, 100000,
      100000, 100000, 99999, 99999, 99998, 99996, 99995, 99993, 99990, 99988, 99985, 99982,
      99978, 99974, 99970, 99966, 99961, 99956, 99951, 99945, 99939, 99933, 99926, 99919,
      99912, 99905, 99897, 99889, 99881, 99872, 99863, 99854, 99844, 99834, 99824, 99813,
      99803, 99792, 99780, 99768, 99756, 99744, 99731, 99719, 99705, 99692, 99678, 99664,
      99649, 99635, 99619, 99604, 99588, 99572, 99556, 99540, 99523, 99506, 99488, 99470,
      99452, 99434, 99415, 99396, 99377, 99357, 99337, 99317, 99297, 99276, 99255, 99233,
      99211, 99189, 99167, 99144, 99122, 99098, 99075, 99051, 99027, 99002, 98978, 98953,
      98927, 98902, 98876, 98849, 98823, 98796, 98769, 98741, 98714, 98686, 98657, 98629,
      98600, 98570, 98541, 98511, 98481, 98450, 98420, 98389, 98357, 98325, 98294, 98261,
      98229, 98196, 98163, 98129, 98096, 98061, 98027, 97992, 97958, 97922, 97887, 97851,
      97815, 97778, 97742, 97705, 97667, 97630, 97592, 97553, 97515, 97476, 97437, 97398,
      97358, 97318, 97278, 97237, 97196, 97155, 97113, 97072, 97030, 96987, 96945, 96902,
      96858, 96815, 96771, 96727, 96682, 96638, 96593, 96547, 96502, 96456, 96410, 96363,
      96316, 96269, 96222, 96174, 96126, 96078, 96029, 95981, 95931, 95882, 95832, 95782,
      95732, 95681, 95630, 95579, 95528, 95476, 95424, 95372, 95319, 95266, 95213, 95159,
      95106, 95052, 94997, 94943, 94888, 94832, 94777, 94721, 94665, 94609, 94552, 94495,
      94438, 94380, 94322, 94264, 94206, 94147, 94088, 94029, 93969, 93909, 93849, 93789,
      93728, 93667, 93606, 93544, 93483, 93420, 93358, 93295, 93232, 93169, 93106, 93042,
      92978, 92913, 92849, 92784, 92718, 92653, 92587, 92521, 92455, 92388, 92321, 92254,
      92186, 92119, 92050, 91982, 91914, 91845, 91775, 91706, 91636, 91566, 91496, 91425,
      91355, 91283, 91212, 91140, 91068, 90996, 90924, 90851, 90778, 90704, 90631, 90557,
      90483, 90408, 90334, 90259, 90183, 90108, 90032, 89956, 89879, 89803, 89726, 89649,
      89571, 89493, 89415, 89337, 89259, 89180, 89101, 89021, 88942, 88862, 88782, 88701,
      88620, 88539, 88458, 88377, 88295, 88213, 88130, 88048, 87965, 87882, 87798, 87715,
      87631, 87546, 87462, 87377, 87292, 87207, 87121, 87036, 86949, 86863, 86777, 86690,
      86603>>

SinTable ==
    <<-50000, -49849, -49697, -49546, -49394, -49242, -49090, -48938, -48786, -48634, -48481, -48328,
      -48175, -48022, -47869, -47716, -47562, -47409, -47255, -47101, -46947, -46793, -46639, -46484,
      -46330, -46175, -46020, -45865, -45710, -45554, -45399, -45243, -45088, -44932, -44776, -44620,
      -44464, -44307, -44151, -43994, -43837, -43680, -43523, -43366, -43209, -43051, -42894, -42736,
      -42578, -42420, -42262, -42104, -41945, -41787, -41628, -41469, -41310, -41151, -40992, -40833,
      -40674, -40514, -40355, -40195, -40035, -39875, -39715, -39555, -39394, -39234, -39073, -38912,
      -38752, -38591, -38430, -38268, -38107, -37946, -37784, -37622, -37461, -37299, -37137, -36975,
      -36812, -36650, -36488, -36325, -36162, -36000, -35837, -35674, -35511, -35347, -35184, -35021,
      -34857, -34694, -34530, -34366, -34202, -34038, -33874, -33710, -33545, -33381, -33216, -33051,
      -32887, -32722, -32557, -32392, -32227, -32061, -31896, -31730, -31565, -31399, -31233, -31068,
      -30902, -30736, -30570, -30403, -30237, -30071, -29904, -29737, -29571, -29404, -29237, -29070,
      -28903, -28736, -28569, -28402, -28234, -28067, -27899, -27731, -27564, -27396, -27228, -27060,
      -26892, -26724, -26556, -26387, -26219, -26050, -25882, -25713, -25545, -25376, -25207, -25038,
      -24869, -24700, -24531, -24362, -24192, -24023, -23853, -23684, -23514, -23345, -23175, -23005,
      -22835, -22665, -22495, -22325, -22155, -21985, -21814, -21644, -21474, -21303, -21132, -20962,
      -20791, -20620, -20450, -20279, -20108, -19937, -19766, -19595, -19423, -19252, -19081, -18910,
      -18738, -18567, -18395, -18224, -18052, -17880, -17708, -17537, -17365, -17193, -17021, -16849,
      -16677, -16505, -16333, -16160, -15988, -15816, -15643, -15471, -15299, -15126, -14954, -14781,
      -14608, -14436, -14263, -14090, -13917, -13744, -13572, -13399, -13226, -13053, -12880, -12706,
      -12533, -12360, -12187, -12014, -11840, -11667, -11494, -11320, -11147, -10973, -10800, -10626,
      -10453, -10279, -10106, -9932, -9758, -9585, -9411, -9237, -9063, -8889, -8716, -8542,
      -8368, -8194, -8020, -7846, -7672, -7498, -7324, -7150, -6976, -6802, -6627, -6453,
      -6279, -6105, -5931, -5756, -5582, -5408, -5234, -5059, -4885, -4711, -4536, -4362,
      -4188, -4013, -3839, -3664, -3490, -3316, -3141, -2967, -2792, -2618, -2443, -2269,
      -2094, -1920, -1745, -1571, -1396, -1222, -1047, -873, -698, -524, -349, -175,
      0, 175, 349, 524, 698, 873, 1047, 1222, 1396, 1571, 1745, 1920,
      2094, 2269, 2443, 2618, 2792, 2967, 3141, 3316, 3490, 3664, 3839, 4013,
      4188, 4362, 4536, 4711, 4885, 5059, 5234, 5408, 5582, 5756, 5931, 6105,
      6279, 6453, 6627, 6802, 6976, 7150, 7324, 7498, 7672, 7846, 8020, 8194,
      8368, 8542, 8716, 8889, 9063, 9237, 9411, 9585, 9758, 9932, 10106, 10279,
      10453, 10626, 10800, 10973, 11147, 11320, 11494, 11667, 11840, 12014, 12187, 12360,
      12533, 12706, 12880, 13053, 13226, 13399, 13572, 13744, 13917, 14090, 14263, 14436,
      14608, 14781, 14954, 15126, 15299, 15471, 15643, 15816, 15988, 16160, 16333, 16505,
      16677, 16849, 17021, 17193, 17365, 17537, 17708, 17880, 18052, 18224, 18395, 18567,
      18738, 18910, 19081, 19252, 19423, 19595, 19766, 19937, 20108, 20279, 20450, 20620,
      20791, 20962, 21132, 21303, 21474, 21644, 21814, 21985, 22155, 22325, 22495, 22665,
      22835, 23005, 23175, 23345, 23514, 23684, 23853, 24023, 24192, 24362, 24531, 24700,
      24869, 25038, 25207, 25376, 25545, 25713, 25882, 26050, 26219, 26387, 26556, 26724,
      26892, 27060, 27228, 27396, 27564, 27731, 27899, 28067, 28234, 28402, 28569, 28736,
      28903, 29070, 29237, 29404, 29571, 29737, 29904, 30071, 30237, 30403, 30570, 30736,
      30902, 31068, 31233, 31399, 31565, 31730, 31896, 32061, 32227, 32392, 32557, 32722,
      32887, 33051, 33216, 33381, 33545, 33710, 33874, 34038, 34202, 34366, 34530, 34694,
      34857, 35021, 35184, 35347, 35511, 35674, 35837, 36000, 36162, 36325, 36488, 36650,
      36812, 36975, 37137, 37299, 37461, 37622, 37784, 37946, 38107, 38268, 38430, 38591,
      38752, 38912, 39073, 39234, 39394, 39555, 39715, 39875, 40035, 40195, 40355, 40514,
      40674, 40833, 40992, 41151, 41310, 41469, 41628, 41787, 41945, 42104, 42262, 42420,
      42578, 42736, 42894, 43051, 43209, 43366, 43523, 43680, 43837, 43994, 44151, 44307,
      44464, 44620, 44776, 44932, 45088, 45243, 45399, 45554, 45710, 45865, 46020, 46175,
      46330, 46484, 46639, 46793, 46947, 47101, 47255, 47409, 47562, 47716, 47869, 48022,
      48175, 48328, 48481, 48634, 48786, 48938, 49090, 49242, 49394, 49546, 49697, 49849,
      50000>>

\* cosine and sine of a rotation given in tenths of a degree, times TrigScale:
\* the rotation is a whole number q of quarter turns plus a rest d of at most
\* 30 degrees either way, which the tables cover
QuarterTurns(a) == (((a % 3600) + 450) \div 900) % 4

TurnRest(a) == (a % 3600) - 900 * (((a % 3600) + 450) \div 900)

Cos(a) ==
    LET q == QuarterTurns(a)
        d == TurnRest(a)
    IN CASE d = 0 /\ q = 0 -> TrigScale
         [] d = 0 /\ q = 1 -> 0
         [] d = 0 /\ q = 2 -> -TrigScale
         [] d = 0 /\ q = 3 -> 0
         [] d # 0 /\ q = 0 -> CosTable[d + 301]
         [] d # 0 /\ q = 1 -> -SinTable[d + 301]
         [] d # 0 /\ q = 2 -> -CosTable[d + 301]
         [] d # 0 /\ q = 3 -> SinTable[d + 301]

Sin(a) ==
    LET q == QuarterTurns(a)
        d == TurnRest(a)
    IN CASE d = 0 /\ q = 0 -> 0
         [] d = 0 /\ q = 1 -> TrigScale
         [] d = 0 /\ q = 2 -> 0
         [] d = 0 /\ q = 3 -> -TrigScale
         [] d # 0 /\ q = 0 -> SinTable[d + 301]
         [] d # 0 /\ q = 1 -> CosTable[d + 301]
         [] d # 0 /\ q = 2 -> -SinTable[d + 301]
         [] d # 0 /\ q = 3 -> -CosTable[d + 301]

\* Math.sqrt on a non-negative integer, rounded down
RECURSIVE SqrtIter(_, _)
SqrtIter(n, x) ==
    LET y == (x + n \div x) \div 2
    IN IF y >= x THEN x ELSE SqrtIter(n, y)

Sqrt(n) == IF n < 2 THEN n ELSE SqrtIter(n, n \div 2 + 1)

----------------------------------------------------------------------------
(* TextureAtlasDialog.tsx: matchFeatures.  The argument is matchesArray,    *)
(* the raw result of BFMatcher.match: a sequence of DMatch records          *)
(* [queryIdx, trainIdx, distance].                                          *)

RECURSIVE SumSeq(_)
SumSeq(s) == IF s = <<>> THEN 0 ELSE Head(s) + SumSeq(Tail(s))

\* Array.prototype.filter is SelectSeq: the elements passing, in their order

\* insertion of d into an ascending sequence
RECURSIVE InsertSorted(_, _)
InsertSorted(d, s) ==
    IF s = <<>> THEN <<d>>
    ELSE IF d <= Head(s) THEN <<d>> \o s
         ELSE <<Head(s)>> \o InsertSorted(d, Tail(s))

\* distances.sort((a, b) => a - b)
RECURSIVE SortAsc(_)
SortAsc(s) == IF s = <<>> THEN <<>> ELSE InsertSorted(Head(s), SortAsc(Tail(s)))

Distances(ms) == [k \in 1..Len(ms) |-> ms[k].distance]

\* mutant: the lower of the two middle values is taken for an even count
medianDistance_lowerMiddle(matchesArray) ==
    SortAsc(Distances(matchesArray))[((Len(matchesArray) - 1) \div 2) + 1]

\* distances[Math.floor(distances.length / 2)] (0-based) of the sorted distances
medianDistance(matchesArray) ==
    SortAsc(Distances(matchesArray))[(Len(matchesArray) \div 2) + 1]

\* mutant: the threshold is medianDistance * 0.8 without the cap of 50
BelowDistanceThreshold_noCap(match, median) ==
    10 * match.distance < median * 8

\* match.distance < Math.min(50, medianDistance * 0.8), both sides times 10
BelowDistanceThreshold(match, median) ==
    10 * match.distance < Min(10 * 50, median * 8)

\* match.distance < meanDist + 2 * stdDist over the n distances ds, exactly:
\* with S the sum and Q the sum of squares, mean = S/n and
\* std = sqrt(n*Q - S*S)/n, so the test is n*d - S < 2*sqrt(n*Q - S*S).
BelowOutlierThreshold(match, ds) ==
    LET n == Len(ds)
        S == SumSeq(ds)
        Q == SumSeq([k \in 1..n |-> ds[k] * ds[k]])
        L == n * match.distance - S
        V == n * Q - S * S
    IN L < 0 \/ L * L < 4 * V

enableRatioTest == FALSE

\* mutant: the outlier stage appends its survivors to goodMatches instead of
\* replacing it
matchFeatures_append(matchesArray) ==
    IF Len(matchesArray) = 0 THEN <<>>
    ELSE LET median == medianDistance(matchesArray)
             Good(m) == BelowDistanceThreshold(m, median)
             goodMatches == SelectSeq(matchesArray, Good)
             Inlier(m) == BelowOutlierThreshold(m, Distances(goodMatches))
         IN goodMatches \o SelectSeq(goodMatches, Inlier)

\* goodMatches after the distance filter, the first of matchFeatures' stages
DistanceFiltered(matchesArray) ==
    IF Len(matchesArray) = 0 THEN <<>>
    ELSE LET median == medianDistance(matchesArray)
             Good(m) == BelowDistanceThreshold(m, median)
         IN SelectSeq(matchesArray, Good)

matchFeatures(matchesArray) ==
    IF Len(matchesArray) = 0 THEN <<>>
    ELSE LET goodMatches == DistanceFiltered(matchesArray)
             \* the ratio test is compiled out: enableRatioTest is false
             afterRatio == IF enableRatioTest /\ Len(goodMatches) > 0
                           THEN goodMatches ELSE goodMatches
             Inlier(m) == BelowOutlierThreshold(m, Distances(afterRatio))
         IN IF Len(afterRatio) >= 4
            THEN SelectSeq(afterRatio, Inlier)
            ELSE afterRatio

----------------------------------------------------------------------------
(* TextureAtlasDialog.tsx: calculateOptimalRotation.  keypoints1 and        *)
(* keypoints2 are sequences of points [x, y] in pixels, indexed by          *)
(* queryIdx / trainIdx (1-based here); selectedAreaCenter is in half        *)
(* pixels, NoCenter when the argument is undefined.                         *)

NoCenter == [x |-> -1, y |-> -1]

\* minTotalDistance = Infinity
Infinity == 2147483647

\* for (let angle = -30; angle <= 30; angle += 0.1), in tenths of a degree.
\* In IEEE doubles the 600th addition of 0.1 gives 30.000000000000316, which
\* fails angle <= 30: the loop body runs for 600 candidates, the last of
\* which is 29.900000000000315.
ScanFirst == -300
ScanLast == 299

\* distances are summed in hundredths of a pixel
ToHundredths(v) == v \div ((2 * TrigScale) \div 100)

\* mutant: the rotated point is not moved back by the rotation centre
PointDistance_centreNotRestored(p1, p2, rotationCenter, angle) ==
    LET cos == Cos(angle)
        sin == Sin(angle)
        relativeX == Px(p2.x) - rotationCenter.x
        relativeY == Px(p2.y) - rotationCenter.y
        rotatedX == relativeX * cos - relativeY * sin
        rotatedY == relativeX * sin + relativeY * cos
        dx == ToHundredths(Px(p1.x) * TrigScale - rotatedX)
        dy == ToHundredths(Px(p1.y) * TrigScale - rotatedY)
    IN Sqrt(dx * dx + dy * dy)

\* one term of totalDistance: |p1 - rotate(p2 about rotationCenter by angle)|
PointDistance(p1, p2, rotationCenter, angle) ==
    LET cos == Cos(angle)
        sin == Sin(angle)
        relativeX == Px(p2.x) - rotationCenter.x
        relativeY == Px(p2.y) - rotationCenter.y
        rotatedX == relativeX * cos - relativeY * sin
        rotatedY == relativeX * sin + relativeY * cos
        finalX == rotatedX + rotationCenter.x * TrigScale
        finalY == rotatedY + rotationCenter.y * TrigScale
        dx == ToHundredths(Px(p1.x) * TrigScale - finalX)
        dy == ToHundredths(Px(p1.y) * TrigScale - finalY)
    IN Sqrt(dx * dx + dy * dy)

\* totalDistance of one candidate angle, summed in input order
TotalDistance(points1, points2, rotationCenter, angle) ==
    SumSeq([k \in 1..Len(points1) |->
               PointDistance(points1[k], points2[k], rotationCenter, angle)])

\* one iteration of the search loop; best is [minTotalDistance, optimalRotation]
ScanStep(angle, best, points1, points2, rotationCenter) ==
    LET totalDistance == TotalDistance(points1, points2, rotationCenter, angle)
    IN IF totalDistance < best.minTotalDistance
       THEN [minTotalDistance |-> totalDistance, optimalRotation |-> angle]
       ELSE best

\* the iterations for the candidates lo..hi in ascending order, started from
\* best (the range is split in two halves run one after the other, which keeps
\* the evaluation depth logarithmic; the test on first always holds and only
\* makes the first half be evaluated before the second starts)
RECURSIVE ScanAngles(_, _, _, _, _, _)
ScanAngles(lo, hi, best, points1, points2, rotationCenter) ==
    IF lo > hi THEN best
    ELSE IF lo = hi THEN ScanStep(lo, best, points1, points2, rotationCenter)
    ELSE LET mid == (lo + hi) \div 2
             first == ScanAngles(lo, mid, best, points1, points2, rotationCenter)
         IN IF first.minTotalDistance <= Infinity
            THEN ScanAngles(mid + 1, hi, first, points1, points2, rotationCenter)
            ELSE first

\* mutant: two correspondences are enough to search
calculateOptimalRotation_twoSuffice(keypoints1, keypoints2, matches, currentRotation, selectedAreaCenter) ==
    IF Len(matches) < 2
    THEN [rotation |-> currentRotation, translateY |-> 0]
    ELSE LET points1 == [k \in 1..Len(matches) |-> keypoints1[matches[k].queryIdx]]
             points2 == [k \in 1..Len(matches) |-> keypoints2[matches[k].trainIdx]]
             rotationCenter == IF selectedAreaCenter = NoCenter
                               THEN [x |-> 0, y |-> 0] ELSE selectedAreaCenter
             start == [minTotalDistance |-> Infinity, optimalRotation |-> currentRotation]
         IN [rotation |-> ScanAngles(ScanFirst, ScanLast, start,
                                     points1, points2, rotationCenter).optimalRotation,
             translateY |-> 0]

calculateOptimalRotation(keypoints1, keypoints2, matches, currentRotation, selectedAreaCenter) ==
    IF Len(matches) < 3
    THEN [rotation |-> currentRotation, translateY |-> 0]
    ELSE LET points1 == [k \in 1..Len(matches) |-> keypoints1[matches[k].queryIdx]]
             points2 == [k \in 1..Len(matches) |-> keypoints2[matches[k].trainIdx]]
             rotationCenter == IF selectedAreaCenter = NoCenter
                               THEN [x |-> 0, y |-> 0] ELSE selectedAreaCenter
             start == [minTotalDistance |-> Infinity, optimalRotation |-> currentRotation]
         IN [rotation |-> ScanAngles(ScanFirst, ScanLast, start,
                                     points1, points2, rotationCenter).optimalRotation,
             translateY |-> 0]

----------------------------------------------------------------------------
(* Inputs the specifications draw from *)

\* longest image list handed to an entry point
MaxImages == 3

Area(x, y, width, height) == [x |-> x, y |-> y, width |-> width, height |-> height]

Transform(scale, rotation, translateX, translateY) ==
    [scale |-> scale, rotation |-> rotation,
     translateX |-> translateX, translateY |-> translateY]

\* the transform of a freshly uploaded image
DefaultTransform == Transform(1, 0, 0, 0)

\* width, height and selected region of the images of the general runs: one
\* with even sizes, one with odd sizes (half-pixel centres), one without region
ImageShapes ==
    { [width |-> 1000, height |-> 800, selectedArea |-> Area(100, 100, 50, 50)],
      [width |-> 801, height |-> 601, selectedArea |-> Area(120, 90, 51, 49)],
      [width |-> 1000, height |-> 800, selectedArea |-> NoArea] }

\* pre-run transforms: the default, one the user scaled, turned and moved by
\* hand (2x, 90 degrees, (3, -2) px), one only moved ((-10, 5) px)
PreRunTransforms ==
    { DefaultTransform, Transform(2, 900, Px(3), Px(-2)), Transform(1, 0, Px(-10), Px(5)) }

ImageRecord(id, shape, transform) ==
    [id |-> id, width |-> shape.width, height |-> shape.height,
     selectedArea |-> shape.selectedArea, transform |-> transform]

\* all image lists of length n whose k-th image has id k
ImageLists(n) ==
    { [k \in 1..n |-> ImageRecord(k, f[k][1], f[k][2])] :
          f \in [1..n -> ImageShapes \X PreRunTransforms] }

Point(x, y) == [x |-> x, y |-> y]

\* a matcher result: the first Len(distances) keypoints of both images are
\* matched index to index with the given distances
MatchesOf(distances) ==
    [k \in 1..Len(distances) |-> [queryIdx |-> k, trainIdx |-> k, distance |-> distances[k]]]

\* three strong matches (which pass the filter) followed by four weak ones
StrongAndWeak == MatchesOf(<<10, 12, 14, 100, 100, 100, 100>>)

Detection(points1, points2, matchesArray) ==
    [cv |-> TRUE, error |-> "", keypoints1 |-> points1, keypoints2 |-> points2,
     matchesArray |-> matchesArray]

WeakPoints == <<Point(10, 10), Point(20, 700), Point(900, 30), Point(640, 480)>>

\* the second image shows the first turned by -5 degrees about (125, 125)
DetTurned ==
    Detection(<<Point(300, 200), Point(400, 350), Point(200, 400)>> \o WeakPoints,
              <<Point(306, 184), Point(419, 325), Point(224, 392)>> \o WeakPoints,
              StrongAndWeak)

\* the second image shows the first moved by (20, -10) px, not turned
DetMoved ==
    Detection(<<Point(500, 400), Point(700, 200), Point(400, 600)>> \o WeakPoints,
              <<Point(520, 390), Point(720, 190), Point(420, 590)>> \o WeakPoints,
              StrongAndWeak)

\* only two matches survive the filter
DetFew ==
    Detection(<<Point(300, 200), Point(400, 350)>> \o WeakPoints,
              <<Point(300, 200), Point(400, 350)>> \o WeakPoints,
              MatchesOf(<<10, 12, 100, 100, 100>>))

\* imageToMat rejects
DetThrows == [cv |-> TRUE, error |-> "Failed to load image",
              keypoints1 |-> <<>>, keypoints2 |-> <<>>, matchesArray |-> <<>>]

\* window.cv is not there
DetNoCv == [cv |-> FALSE, error |-> "",
            keypoints1 |-> <<>>, keypoints2 |-> <<>>, matchesArray |-> <<>>]

Detections == {DetTurned, DetMoved, DetFew, DetThrows, DetNoCv}

\* the end-to-end scenario: three 1000x800 images with these regions
ScenarioAreas == <<Area(100, 100, 50, 50), Area(120, 90, 50, 50), Area(80, 110, 50, 50)>>

\* pre-run transforms of the scenario: the default, or moved by hand
ScenarioTransforms == { DefaultTransform, Transform(1, 0, Px(-10), Px(5)) }

ScenarioLists ==
    { [k \in 1..3 |-> ImageRecord(k, [width |-> 1000, height |-> 800,
                                      selectedArea |-> ScenarioAreas[k]], f[k])] :
          f \in [1..3 -> ScenarioTransforms] }

\* feature points of the subject as the first image of a pair shows them
BasePointSets ==
    { <<Point(500, 400), Point(700, 200), Point(400, 600)>>,
      <<Point(130, 120), Point(160, 110), Point(150, 140)>>,
      <<Point(300, 200), Point(400, 350), Point(200, 400)>>,
      <<Point(200, 150), Point(100, 300), Point(350, 120)>> }

MovedBy(points, dx, dy) ==
    [k \in 1..Len(points) |-> Point(points[k].x + dx, points[k].y + dy)]

\* correspondences without rotation for the pair of loop index i: the second
\* image shows the subject where its own region is, i.e. moved by the offset
\* between the two regions, and not turned
NoRotationDetections(list, i) ==
    LET dx == list[i + 2].selectedArea.x - list[i + 1].selectedArea.x
        dy == list[i + 2].selectedArea.y - list[i + 1].selectedArea.y
    IN { Detection(points \o WeakPoints, MovedBy(points, dx, dy) \o WeakPoints,
                   StrongAndWeak) : points \in BasePointSets }

----------------------------------------------------------------------------
(* The rotation search is a function of its arguments alone.  Its results   *)
(* for the arguments the specifications can pass are computed once, here,   *)
(* and looked up by alignImages; any other argument is searched on the      *)
(* spot.                                                                    *)

AreaCenter(selectedArea) ==
    [x |-> Px(selectedArea.x) + Half(selectedArea.width),
     y |-> Px(selectedArea.y) + Half(selectedArea.height)]

\* the region a user draws in the App
AppArea == Area(100, 100, 50, 50)

\* the rotation the search gives an image of the App; a later run passes it
\* back as currentRotation
AppSolvedRotation ==
    calculateOptimalRotation(DetTurned.keypoints1, DetTurned.keypoints2,
                             matchFeatures(DetTurned.matchesArray), 0,
                             AreaCenter(AppArea)).rotation

SearchArguments ==
    { <<DetTurned.keypoints1, DetTurned.keypoints2, matchFeatures(DetTurned.matchesArray),
        AppSolvedRotation, AreaCenter(AppArea)>> }
    \cup
    { <<det.keypoints1, det.keypoints2, matchFeatures(det.matchesArray),
        t.rotation, AreaCenter(shape.selectedArea)>> :
          det \in {DetTurned, DetMoved}, t \in PreRunTransforms,
          shape \in {sh \in ImageShapes : HasArea(sh.selectedArea)} }
    \cup
    UNION { { <<det.keypoints1, det.keypoints2, matchFeatures(det.matchesArray),
                0, AreaCenter(ScenarioAreas[p + 2])>> :
                  det \in NoRotationDetections(
                              [k \in 1..3 |-> [selectedArea |-> ScenarioAreas[k]]], p) } :
            p \in 0..1 }

SearchResults ==
    { <<a, calculateOptimalRotation(a[1], a[2], a[3], a[4], a[5])>> : a \in SearchArguments }

OptimalRotation(keypoints1, keypoints2, matches, currentRotation, selectedAreaCenter) ==
    LET a == <<keypoints1, keypoints2, matches, currentRotation, selectedAreaCenter>>
    IN IF a \in SearchArguments
       THEN (CHOOSE e \in SearchResults : e[1] = a)[2]
       ELSE calculateOptimalRotation(keypoints1, keypoints2, matches,
                                     currentRotation, selectedAreaCenter)

----------------------------------------------------------------------------
(* TextureAtlasDialog.tsx: alignImages.  det is what the collaborators do   *)
(* during this call: cv says whether window.cv is loaded, error is the      *)
(* message thrown by imageToMat / extractORBFeatures ("" when they          *)
(* succeed), keypoints1, keypoints2 and matchesArray are the detector's and *)
(* the matcher's raw results.                                               *)

AlignFailure(image2, message) ==
    [success |-> FALSE, transform |-> image2.transform, error |-> message]

alignImages(image1, image2, det) ==
    IF ~det.cv
    THEN AlignFailure(image2, "OpenCV is not loaded")
    ELSE IF ~HasArea(image1.selectedArea) \/ ~HasArea(image2.selectedArea)
    THEN AlignFailure(image2, "Both images must have selected areas")
    ELSE IF det.error # ""
    THEN AlignFailure(image2, det.error)
    ELSE LET matches == matchFeatures(det.matchesArray)
         IN IF Len(matches) < 3
            THEN AlignFailure(image2, "Not enough matching features found")
            ELSE LET selectedAreaCenter ==
                         IF HasArea(image2.selectedArea)
                         THEN AreaCenter(image2.selectedArea) ELSE NoCenter
                     solved == OptimalRotation(det.keypoints1, det.keypoints2,
                                   matches, image2.transform.rotation, selectedAreaCenter)
                 IN [success |-> TRUE,
                     transform |-> [scale |-> image2.transform.scale,
                                    rotation |-> solved.rotation,
                                    translateX |-> image2.transform.translateX,
                                    translateY |-> solved.translateY],
                     error |-> ""]

----------------------------------------------------------------------------
(* TextureAtlasDialog.tsx: the orchestrator's loops.  Lists are 1-based     *)
(* sequences; the loop index i is the code's 0-based index, so the pair     *)
(* (alignedImages[i], alignedImages[i + 1]) is (list[i + 1], list[i + 2]).  *)

\* mutant: the new record is built without the image's region
WithTransform_regionDropped(image, newTransform) ==
    [image EXCEPT !.transform = newTransform, !.selectedArea = NoArea]

\* { ...image, transform: newTransform }
WithTransform(image, newTransform) == [image EXCEPT !.transform = newTransform]

PairHasAreas(list, i) ==
    HasArea(list[i + 1].selectedArea) /\ HasArea(list[i + 2].selectedArea)

\* the step for index 0 before the translation loop
CenterFirst(list) ==
    IF HasArea(list[1].selectedArea)
    THEN [list EXCEPT ![1] = WithTransform(list[1],
              calculateCenterImageTransform(list[1].width, list[1].height,
                                            list[1].transform, list[1].selectedArea))]
    ELSE list

\* mutant: a pair is aligned as soon as the next image has a region
TranslatePair_skipOnNextOnly(list, i) ==
    LET currentImage == list[i + 1]
        nextImage == list[i + 2]
    IN IF ~HasArea(nextImage.selectedArea)
       THEN list
       ELSE [list EXCEPT ![i + 2] = WithTransform(nextImage,
                calculateAlignImagesTransform(
                    currentImage.width, currentImage.height, currentImage.transform,
                    nextImage.width, nextImage.height, nextImage.transform,
                    currentImage.selectedArea, nextImage.selectedArea))]

\* one iteration of the translation loop
TranslatePair(list, i) ==
    LET currentImage == list[i + 1]
        nextImage == list[i + 2]
    IN IF ~HasArea(currentImage.selectedArea) \/ ~HasArea(nextImage.selectedArea)
       THEN list
       ELSE [list EXCEPT ![i + 2] = WithTransform(nextImage,
                calculateAlignImagesTransform(
                    currentImage.width, currentImage.height, currentImage.transform,
                    nextImage.width, nextImage.height, nextImage.transform,
                    currentImage.selectedArea, nextImage.selectedArea))]

\* the translation loop from index i on
RECURSIVE TranslateLoop(_, _)
TranslateLoop(list, i) ==
    IF i < Len(list) - 1 THEN TranslateLoop(TranslatePair(list, i), i + 1) ELSE list

\* pass 1: index 0, then the loop
TranslationPass(list) == TranslateLoop(CenterFirst(list), 0)

\* mutant: the solved angle is added to the rotation the image had
ApplyRotation_addsToPrevious(list, i, alignmentResult) ==
    LET nextImage == list[i + 2]
    IN IF alignmentResult.success
       THEN [list EXCEPT ![i + 2] = WithTransform(nextImage,
                [scale |-> nextImage.transform.scale,
                 rotation |-> nextImage.transform.rotation
                              + alignmentResult.transform.rotation,
                 translateX |-> nextImage.transform.translateX,
                 translateY |-> nextImage.transform.translateY])]
       ELSE list

\* mutant: the success branch takes the whole transform returned by alignImages
ApplyRotation_wholeTransform(list, i, alignmentResult) ==
    IF alignmentResult.success
    THEN [list EXCEPT ![i + 2] = WithTransform(list[i + 2], alignmentResult.transform)]
    ELSE list

\* mutant: a failed call resets the rotation of the pair's second image
ApplyRotation_resetOnFailure(list, i, alignmentResult) ==
    LET nextImage == list[i + 2]
    IN [list EXCEPT ![i + 2] = WithTransform(nextImage,
           [scale |-> nextImage.transform.scale,
            rotation |-> IF alignmentResult.success
                         THEN alignmentResult.transform.rotation ELSE 0,
            translateX |-> nextImage.transform.translateX,
            translateY |-> nextImage.transform.translateY])]

\* the body of the rotation loop after the awaited call returned
ApplyRotation(list, i, alignmentResult) ==
    LET nextImage == list[i + 2]
    IN IF alignmentResult.success
       THEN [list EXCEPT ![i + 2] = WithTransform(nextImage,
                [scale |-> nextImage.transform.scale,
                 rotation |-> alignmentResult.transform.rotation,
                 translateX |-> nextImage.transform.translateX,
                 translateY |-> nextImage.transform.translateY])]
       ELSE list

\* the rotation loop runs without suspending over the pairs it skips: the
\* index of the first pair from i on that is awaited, Len(list) - 1 if none
RECURSIVE NextAwaited(_, _)
NextAwaited(list, i) ==
    IF i < Len(list) - 1 /\ ~PairHasAreas(list, i) THEN NextAwaited(list, i + 1)
    ELSE IF i < Len(list) - 1 THEN i ELSE Len(list) - 1

----------------------------------------------------------------------------
(* The three entry points as a state machine.  An async function runs       *)
(* without interruption up to its next await, so an entry point is one      *)
(* step from its call to its first await (or return) and one step per       *)
(* awaited alignImages call after that.                                     *)

\* console messages of the pairs the translation loop skipped
TranslateSkipLog(list) ==
    SelectSeq([k \in 1..(Len(list) - 1) |->
                  [msg |-> "translate skipped", index |-> k,
                   skipped |-> ~PairHasAreas(list, k - 1)]],
              LAMBDA e : e.skipped)

\* console messages of the pairs from..to - 1 the rotation loop skipped
RotateSkipLog(list, from, to) ==
    [k \in 1..(to - from) |->
        [msg |-> "rotate skipped", index |-> from + k, skipped |-> TRUE]]

TooFewLog == <<[msg |-> "fewer than 2 images", index |-> 0, skipped |-> TRUE]>>

\* the rotation loop from index from on, up to its next await or its end
EnterRotationLoop(list, from, logged) ==
    LET next == NextAwaited(list, from)
    IN /\ alignedImages' = list
       /\ log' = logged \o RotateSkipLog(list, from, next)
       /\ IF next < Len(list) - 1
          THEN pc' = "await" /\ pending' = next
          ELSE pc' = "done" /\ pending' = -1

Returns(list, logged) ==
    /\ alignedImages' = list
    /\ log' = logged
    /\ pc' = "done"
    /\ pending' = -1

\* mutant: the length check lets a single image through
CallAlignAllImages_singleImage ==
    /\ pc = "start" /\ entry = "all"
    /\ IF Len(images) < 1
       THEN Returns(images, TooFewLog)
       ELSE EnterRotationLoop(TranslationPass(images), 0, TranslateSkipLog(images))
    /\ UNCHANGED <<app, images, entry, detLog, fnArg, fnRet>>

\* mutant: pass 1 starts at the loop, without the step for index 0
CallAlignAllImages_noIndexZero ==
    /\ pc = "start" /\ entry = "all"
    /\ IF Len(images) < 2
       THEN Returns(images, TooFewLog)
       ELSE EnterRotationLoop(TranslateLoop(images, 0), 0, TranslateSkipLog(images))
    /\ UNCHANGED <<app, images, entry, detLog, fnArg, fnRet>>

\* mutant: the first pair's call is awaited as soon as that pair is translated
CallAlignAllImages_awaitsAfterFirstPair ==
    /\ pc = "start" /\ entry = "all"
    /\ IF Len(images) < 2
       THEN Returns(images, TooFewLog)
       ELSE EnterRotationLoop(TranslatePair(CenterFirst(images), 0), 0,
                              TranslateSkipLog(images))
    /\ UNCHANGED <<app, images, entry, detLog, fnArg, fnRet>>

\* alignAllImages(images) up to its first await
CallAlignAllImages ==
    /\ pc = "start" /\ entry = "all"
    /\ IF Len(images) < 2
       THEN Returns(images, TooFewLog)
       ELSE EnterRotationLoop(TranslationPass(images), 0, TranslateSkipLog(images))
    /\ UNCHANGED <<app, images, entry, detLog, fnArg, fnRet>>

\* alignImagesByAreaOnly(images): it never awaits
CallAlignImagesByAreaOnly ==
    /\ pc = "start" /\ entry = "area"
    /\ IF Len(images) < 2
       THEN Returns(images, TooFewLog)
       ELSE Returns(TranslationPass(images), TranslateSkipLog(images))
    /\ UNCHANGED <<app, images, entry, detLog, fnArg, fnRet>>

\* alignImagesByRotationOnly(images) up to its first await
CallAlignImagesByRotationOnly ==
    /\ pc = "start" /\ entry = "rotation"
    /\ IF Len(images) < 2
       THEN Returns(images, TooFewLog)
       ELSE EnterRotationLoop(images, 0, <<>>)
    /\ UNCHANGED <<app, images, entry, detLog, fnArg, fnRet>>

\* the awaited alignImages(currentImage, nextImage) settles with what det
\* makes it return; the loop body finishes and the loop goes on to its next
\* await or to the return
AlignImagesSettles(det) ==
    /\ pc = "await"
    /\ LET alignmentResult ==
               alignImages(alignedImages[pending + 1], alignedImages[pending + 2], det)
           failLog == IF alignmentResult.success THEN <<>>
                      ELSE <<[msg |-> "rotate failed", index |-> pending + 1,
                              skipped |-> TRUE]>>
       IN EnterRotationLoop(ApplyRotation(alignedImages, pending, alignmentResult),
                            pending + 1, log \o failLog)
    /\ detLog' = Append(detLog, [pair |-> pending, det |-> det])
    /\ UNCHANGED <<app, images, entry, fnArg, fnRet>>

Entries == {"all", "area", "rotation"}

Init ==
    /\ images \in UNION { ImageLists(n) : n \in 0..MaxImages }
    /\ entry \in Entries
    /\ alignedImages = <<>>
    /\ pc = "start"
    /\ pending = -1
    /\ detLog = <<>>
    /\ log = <<>>
    /\ fnArg = NoResult
    /\ fnRet = NoResult
    /\ app = NoApp

Next ==
    \/ CallAlignAllImages
    \/ CallAlignImagesByAreaOnly
    \/ CallAlignImagesByRotationOnly
    \/ \E det \in Detections : AlignImagesSettles(det)

Spec == Init /\ [][Next]_vars

----------------------------------------------------------------------------
(* calculateCenterImageTransform on its own: every size, region and         *)
(* current transform within the bounds.                                     *)

\* largest width, height, region offset and region size, in pixels
MaxSize == 4

CenterArguments ==
    [width : 1..MaxSize, height : 1..MaxSize, currentTransform : PreRunTransforms,
     selectedArea : [x : 0..(MaxSize - 1), y : 0..(MaxSize - 1),
                     width : 1..MaxSize, height : 1..MaxSize]]

Idle ==
    /\ images = <<>>
    /\ alignedImages = <<>>
    /\ entry = "none"
    /\ pc = "idle"
    /\ pending = -1
    /\ detLog = <<>>
    /\ log = <<>>

InitCenter ==
    /\ Idle
    /\ fnArg \in CenterArguments
    /\ fnRet = NoResult
    /\ app = NoApp

CallCalculateCenterImageTransform ==
    /\ fnRet = NoResult
    /\ fnRet' = calculateCenterImageTransform(fnArg.width, fnArg.height,
                                              fnArg.currentTransform, fnArg.selectedArea)
    /\ UNCHANGED <<app, fnArg, images, alignedImages, entry, pc, pending, detLog, log>>

NextCenter == CallCalculateCenterImageTransform

SpecCenter == InitCenter /\ [][NextCenter]_vars

\* C1: translation centering.  Whatever the image size, the region and the
\* current transform, the translation returned by
\* calculateCenterImageTransform added to the region's centre
\* (x + width/2, y + height/2) is the image's centre (W/2, H/2).
C1_TranslationCentering ==
    fnRet # NoResult =>
        /\ AreaCenter(fnArg.selectedArea).x + fnRet.translateX = Half(fnArg.width)
        /\ AreaCenter(fnArg.selectedArea).y + fnRet.translateY = Half(fnArg.height)

\* a region off the image's centre by a half pixel in x has been centred
C1_Witness ==
    /\ fnRet # NoResult
    /\ fnRet.translateX % 2 = 1
    /\ fnRet.translateY # 0
    /\ fnArg.currentTransform # DefaultTransform

----------------------------------------------------------------------------
(* matchFeatures' filtering on its own: every raw match list of up to       *)
(* MaxMatches matches over a few distances, and some longer lists that      *)
(* bring four or more matches to the outlier stage.                         *)

\* longest exhaustively enumerated raw match list
MaxMatches == 5

MatchDistances == {0, 10, 20, 60, 100}

LongDistanceLists ==
    { <<1, 1, 1, 1, 1, 30, 100, 100, 100, 100, 100, 100, 100>>,
      <<100, 1, 100, 2, 100, 3, 100, 4, 100, 5, 100, 40, 100>>,
      <<10, 10, 10, 10, 100, 100, 100, 100, 100>>,
      <<10, 11, 12, 13, 100, 100, 100, 100, 100>>,
      <<70, 70, 70, 70, 70, 70>> }

RawMatchLists ==
    { MatchesOf(ds) : ds \in UNION { [1..n -> MatchDistances] : n \in 0..MaxMatches }
                             \cup LongDistanceLists }

InitFilter ==
    /\ Idle
    /\ fnArg \in [matchesArray : RawMatchLists]
    /\ fnRet = NoResult
    /\ app = NoApp

CallMatchFeatures ==
    /\ fnRet = NoResult
    /\ fnRet' = [goodMatches |-> matchFeatures(fnArg.matchesArray),
                  distanceFiltered |-> DistanceFiltered(fnArg.matchesArray)]
    /\ UNCHANGED <<app, fnArg, images, alignedImages, entry, pc, pending, detLog, log>>

NextFilter == CallMatchFeatures

SpecFilter == InitFilter /\ [][NextFilter]_vars

\* sub is obtained from whole by deleting elements (whole has no duplicates)
RECURSIVE IsSubList(_, _)
IsSubList(sub, whole) ==
    IF sub = <<>> THEN TRUE
    ELSE IF whole = <<>> THEN FALSE
    ELSE IF Head(sub) = Head(whole) THEN IsSubList(Tail(sub), Tail(whole))
    ELSE IsSubList(sub, Tail(whole))

\* C9: filter monotonicity.  The filtered list is a sub-list of the raw list
\* (every output element is an input element, in input order, none twice), so
\* it is never longer than the input, and an empty input gives an empty output.
C9_FilterMonotonicity ==
    fnRet # NoResult =>
        /\ IsSubList(fnRet.goodMatches, fnArg.matchesArray)
        /\ Len(fnRet.goodMatches) <= Len(fnArg.matchesArray)
        /\ (fnArg.matchesArray = <<>> => fnRet.goodMatches = <<>>)

\* both stages have removed something and something is left
C9_Witness ==
    /\ fnRet # NoResult
    /\ Len(fnArg.matchesArray) = 13
    /\ Len(fnRet.goodMatches) = 5

\* C10: no false outlier removal at zero variance.  For a non-empty input
\* whose correspondences all have the same distance, the filter retains all
\* of them.
C10_ZeroVarianceRetained ==
    (/\ fnRet # NoResult
     /\ fnArg.matchesArray # <<>>
     /\ \A k \in 1..Len(fnArg.matchesArray) :
            fnArg.matchesArray[k].distance = fnArg.matchesArray[1].distance)
        => fnRet.goodMatches = fnArg.matchesArray

----------------------------------------------------------------------------
(* Where a transform puts a point of the image: the renderers translate to  *)
(* the canvas centre plus (translateX, translateY), rotate by rotation,     *)
(* scale by scale and draw the image with its midpoint at the origin.       *)

\* canvas position, relative to the canvas centre, of the centre of the
\* image's region; in half pixels times TrigScale
RegionCanvasCenter(image) ==
    LET t == image.transform
        relX == AreaCenter(image.selectedArea).x - Half(image.width)
        relY == AreaCenter(image.selectedArea).y - Half(image.height)
    IN [x |-> t.translateX * TrigScale
              + t.scale * (relX * Cos(t.rotation) - relY * Sin(t.rotation)),
        y |-> t.translateY * TrigScale
              + t.scale * (relX * Sin(t.rotation) + relY * Cos(t.rotation))]

AllHaveAreas(list) == \A k \in 1..Len(list) : HasArea(list[k].selectedArea)

\* C2: chained alignment.  After the translation pass over a list in which
\* every image has a region, whatever the pre-run transforms, the region
\* centres of all images land on the same canvas point when each image's
\* resulting transform is applied.
C2_ChainedAlignment ==
    (/\ pc = "done" /\ entry = "area"
     /\ Len(images) >= 2
     /\ AllHaveAreas(images))
        => \A k \in 1..Len(alignedImages) :
               RegionCanvasCenter(alignedImages[k]) = RegionCanvasCenter(alignedImages[1])

----------------------------------------------------------------------------
(* A whole run as a function of the list and of the detector/matcher's      *)
(* outcome for each awaited pair: detOf[i] is what the call for the pair    *)
(* of loop index i meets.                                                   *)

RECURSIVE RotateLoop(_, _, _)
RotateLoop(list, i, detOf) ==
    IF i < Len(list) - 1
    THEN IF ~PairHasAreas(list, i)
         THEN RotateLoop(list, i + 1, detOf)
         ELSE RotateLoop(ApplyRotation(list, i,
                             alignImages(list[i + 1], list[i + 2], detOf[i])),
                         i + 1, detOf)
    ELSE list

alignAllImages(list, detOf) ==
    IF Len(list) < 2 THEN list ELSE RotateLoop(TranslationPass(list), 0, detOf)

\* the outcomes the run in progress has met, by loop index
DetOfLog == [p \in { detLog[k].pair : k \in 1..Len(detLog) } |->
                (CHOOSE e \in { detLog[k] : k \in 1..Len(detLog) } : e.pair = p).det]

\* the call with this outcome fails: a collaborator throws, or fewer than 3
\* correspondences survive the filter
Fails(det) ==
    \/ ~det.cv
    \/ det.error # ""
    \/ Len(matchFeatures(det.matchesArray)) < 3

SameTranslation(t1, t2) ==
    t1.translateX = t2.translateX /\ t1.translateY = t2.translateY

\* C4 as stated: in a run of alignAllImages, if image k has no region then
\* image k+1 keeps its pre-run translation and rotation, and the images
\* before k get the transforms of a run over the list truncated before k.
C4_AsStated ==
    (pc = "done" /\ entry = "all") =>
        \A k \in 1..Len(images) :
            ~HasArea(images[k].selectedArea) =>
                /\ k + 1 <= Len(images) =>
                       /\ SameTranslation(alignedImages[k + 1].transform,
                                          images[k + 1].transform)
                       /\ alignedImages[k + 1].transform.rotation
                              = images[k + 1].transform.rotation
                /\ \A j \in 1..(k - 1) :
                       alignedImages[j].transform
                           = alignAllImages(SubSeq(images, 1, k - 1), DetOfLog)[j].transform

\* C4, amended: as above when at least two images precede image k; when
\* exactly one does, that image gets the transform of the index-0 step
\* (centred on its region if it has one), not the untouched transform a run
\* over a one-image list leaves it.
C4_GracefulDegradation ==
    (pc = "done" /\ entry = "all") =>
        \A k \in 1..Len(images) :
            ~HasArea(images[k].selectedArea) =>
                /\ k + 1 <= Len(images) =>
                       /\ SameTranslation(alignedImages[k + 1].transform,
                                          images[k + 1].transform)
                       /\ alignedImages[k + 1].transform.rotation
                              = images[k + 1].transform.rotation
                /\ k - 1 >= 2 =>
                       \A j \in 1..(k - 1) :
                           alignedImages[j].transform
                               = alignAllImages(SubSeq(images, 1, k - 1), DetOfLog)[j].transform
                /\ k - 1 = 1 =>
                       alignedImages[1].transform = CenterFirst(images)[1].transform

\* the last of three images has no region, the pair before it was solved and
\* turned the second image
C4_Witness ==
    /\ pc = "done" /\ entry = "all"
    /\ Len(images) = 3
    /\ ~HasArea(images[3].selectedArea)
    /\ alignedImages[2].transform.rotation # images[2].transform.rotation
    /\ ~SameTranslation(alignedImages[2].transform, images[2].transform)

\* the list as it is when the rotation loop starts
RotationPassInput ==
    IF entry = "rotation" THEN images ELSE TranslationPass(images)

\* C5: the rotation pass changes only the rotation field.  For every image,
\* translateX and translateY during and after pass 2 are their values at the
\* end of pass 1 (their pre-run values for alignImagesByRotationOnly), whether
\* the pair's solve succeeded or failed.
C5_RotationPassKeepsTranslation ==
    (pc \in {"await", "done"} /\ entry \in {"all", "rotation"} /\ Len(images) >= 2) =>
        \A k \in 1..Len(images) :
            SameTranslation(alignedImages[k].transform, RotationPassInput[k].transform)

\* a run is over in which one solve succeeded on an image moved off the
\* origin and another solve failed
C5_Witness ==
    /\ pc = "done" /\ entry = "all"
    /\ \E k \in 1..Len(images) :
           /\ alignedImages[k].transform.rotation # images[k].transform.rotation
           /\ alignedImages[k].transform.translateY # 0
    /\ \E k \in 1..Len(detLog) : Fails(detLog[k].det)
    /\ \E k \in 1..Len(detLog) : ~Fails(detLog[k].det)

\* C6: one pair's failure never aborts the run.  When the call for a pair
\* fails, the pair's second image keeps the rotation it had; every pair with
\* two regions up to the loop's position has had its call; the run returns
\* one transform per image.
C6_FailureNeverAborts ==
    (pc \in {"await", "done"} /\ entry \in {"all", "rotation"} /\ Len(images) >= 2) =>
        /\ \A k \in 1..Len(detLog) :
               Fails(detLog[k].det) =>
                   alignedImages[detLog[k].pair + 2].transform.rotation
                       = images[detLog[k].pair + 2].transform.rotation
        /\ LET upTo == IF pc = "done" THEN Len(images) - 1 ELSE pending
           IN \A p \in 0..(upTo - 1) :
                  PairHasAreas(images, p) => p \in DOMAIN DetOfLog
        /\ Len(alignedImages) = Len(images)
        /\ \A k \in 1..Len(images) :
               /\ alignedImages[k].id = images[k].id
               /\ alignedImages[k].transform
                      \in [scale : Int, rotation : Int, translateX : Int, translateY : Int]

\* the first pair's call failed on an image turned by hand, the second
\* pair's call succeeded afterwards, and the run returned
C6_Witness ==
    /\ pc = "done" /\ entry = "all"
    /\ Len(detLog) = 2
    /\ Fails(detLog[1].det) /\ ~Fails(detLog[2].det)
    /\ images[2].transform.rotation # 0
    /\ alignedImages[3].transform.rotation # images[3].transform.rotation

\* image k (1-based) is given a new transform by the translation pass
TranslatedByPass(list, k) ==
    /\ Len(list) >= 2
    /\ HasArea(list[k].selectedArea)
    /\ k > 1 => HasArea(list[k - 1].selectedArea)

----------------------------------------------------------------------------
(* The end-to-end scenario: alignAllImages over the three scenario images,  *)
(* the detector/matcher returning correspondences without rotation.         *)

InitE2E ==
    /\ images \in ScenarioLists
    /\ entry = "all"
    /\ alignedImages = <<>>
    /\ pc = "start"
    /\ pending = -1
    /\ detLog = <<>>
    /\ log = <<>>
    /\ fnArg = NoResult
    /\ fnRet = NoResult
    /\ app = NoApp

AlignImagesSettlesWithoutRotation ==
    /\ pc = "await"
    /\ \E det \in NoRotationDetections(images, pending) : AlignImagesSettles(det)

NextE2E ==
    \/ CallAlignAllImages
    \/ AlignImagesSettlesWithoutRotation

SpecE2E == InitE2E /\ [][NextE2E]_vars

\* the two canvas positions are at most one pixel apart
WithinOnePixel(c1, c2) ==
    LET dx == ToHundredths(c1.x - c2.x)
        dy == ToHundredths(c1.y - c2.y)
    IN dx * dx + dy * dy <= 100 * 100

\* C3: end-to-end scenario.  For the three 1000x800 images with regions
\* [100,100,50,50], [120,90,50,50], [80,110,50,50] and correspondences without
\* rotation between adjacent images, alignAllImages brings the three region
\* centres within 1px of each other on the canvas and leaves every rotation
\* within 0.5 degrees of 0.
C3_EndToEnd ==
    pc = "done" =>
        /\ \A j, k \in 1..3 :
               WithinOnePixel(RegionCanvasCenter(alignedImages[j]),
                              RegionCanvasCenter(alignedImages[k]))
        /\ \A k \in 1..3 : Abs(alignedImages[k].transform.rotation) <= 5


----------------------------------------------------------------------------
(* The two stages of matchFeatures, each against its description.           *)

\* the median of C11: the distance with at most half of the distances (rounded
\* down) strictly below it and more than that many at or below it
MedianOf(matchesArray) ==
    LET n == Len(matchesArray)
        ds == Distances(matchesArray)
    IN CHOOSE m \in { ds[k] : k \in 1..n } :
           /\ Cardinality({ k \in 1..n : ds[k] < m }) <= n \div 2
           /\ Cardinality({ k \in 1..n : ds[k] <= m }) > n \div 2

\* C11: filter stage 1.  With m the median distance of the raw list, the list
\* left by the distance filter holds exactly the raw matches whose distance
\* is strictly below min(50, 0.8 * m), in their input order, and so none with
\* a distance of 50 or more.
C11_DistanceFilter ==
    (fnRet # NoResult /\ fnArg.matchesArray # <<>>) =>
        LET raw == fnArg.matchesArray
            kept == fnRet.distanceFiltered
            m == MedianOf(raw)
        IN /\ IsSubList(kept, raw)
           /\ \A k \in 1..Len(raw) :
                  (\E j \in 1..Len(kept) : kept[j] = raw[k])
                      <=> (raw[k].distance < 50 /\ 10 * raw[k].distance < 8 * m)
           /\ \A j \in 1..Len(kept) : kept[j].distance < 50

\* the cap of 50 decides: a match at 60, below 0.8 times the median of 100,
\* is dropped while a closer one survives
C11_Witness ==
    /\ fnRet # NoResult
    /\ fnArg.matchesArray # <<>>
    /\ MedianOf(fnArg.matchesArray) = 100
    /\ \E k \in 1..Len(fnArg.matchesArray) : fnArg.matchesArray[k].distance = 60
    /\ fnRet.distanceFiltered # <<>>
    /\ Len(fnRet.distanceFiltered) < Len(fnArg.matchesArray)

\* C12: filter stage 2.  For every non-empty list kept by the distance
\* filter, of any size, with mean mu and population standard deviation sigma
\* of the kept distances, the final output contains no match whose distance
\* is >= mu + 2 * sigma and contains every kept match whose distance is below
\* it.  With n kept distances of sum S and sum of squares Q, distance d is
\* below mu + 2 * sigma exactly when n*d - S < 2 * sqrt(n*Q - S*S).
C12_OutlierFilter ==
    (fnRet # NoResult /\ fnRet.distanceFiltered # <<>>) =>
        LET kept == fnRet.distanceFiltered
            final == fnRet.goodMatches
            n == Len(kept)
            S == SumSeq(Distances(kept))
            Q == SumSeq([k \in 1..n |-> kept[k].distance * kept[k].distance])
            Below(d) == n * d < S \/ (n * d - S) * (n * d - S) < 4 * (n * Q - S * S)
        IN \A k \in 1..n :
               (\E j \in 1..Len(final) : final[j] = kept[k]) <=> Below(kept[k].distance)

----------------------------------------------------------------------------
(* calculateOptimalRotation on its own.  The arguments are noise-free       *)
(* correspondences (keypoints2 turned about the rotation centre by an angle *)
(* whose cosine and sine are rational, so that the turned points have       *)
(* integer coordinates), the detections of the runs, lists of fewer than    *)
(* three matches, and keypoints that all sit on the rotation centre.        *)

\* a turn with cosine cos/den and sine sin/den; theta0 is its angle in
\* hundredths of a degree
KnownTurn(cos, sin, den, theta0) ==
    [cos |-> cos, sin |-> sin, den |-> den, theta0 |-> theta0]

NoTurn == KnownTurn(0, 0, 0, 0)

CounterclockwiseTurns ==
    { KnownTurn(112, 15, 113, 763), KnownTurn(84, 13, 85, 880),
      KnownTurn(60, 11, 61, 1039), KnownTurn(40, 9, 41, 1268),
      KnownTurn(63, 16, 65, 1425), KnownTurn(24, 7, 25, 1626),
      KnownTurn(35, 12, 37, 1892), KnownTurn(12, 5, 13, 2262),
      KnownTurn(77, 36, 85, 2506), KnownTurn(15, 8, 17, 2807),
      KnownTurn(45, 28, 53, 3189), KnownTurn(4, 3, 5, 3687) }

KnownTurns ==
    { KnownTurn(1, 0, 1, 0) } \cup CounterclockwiseTurns
    \cup { KnownTurn(t.cos, -t.sin, t.den, -t.theta0) : t \in CounterclockwiseTurns }

\* the keypoints lie within about three times this many pixels of the centre
TurnReach == 120

\* keypoint offsets from the centre, multiples of the turn's denominator
TurnOffsets(t) ==
    LET k == t.den * (TurnReach \div t.den)
    IN <<Point(2 * k, k), Point(k, 2 * k), Point(2 * k, 2 * k)>>

\* the offset u turned by t
Turned(u, t) ==
    Point((u.x * t.cos - u.y * t.sin) \div t.den, (u.x * t.sin + u.y * t.cos) \div t.den)

SolverArguments(keypoints1, keypoints2, matches, currentRotation, selectedAreaCenter, turn) ==
    [keypoints1 |-> keypoints1, keypoints2 |-> keypoints2, matches |-> matches,
     currentRotation |-> currentRotation, selectedAreaCenter |-> selectedAreaCenter,
     turn |-> turn]

\* keypoints2 are the offsets about the centre (cx, cy) px, keypoints1 the
\* same offsets turned by t: rotating keypoints2 by theta0 gives keypoints1
TurnedArguments(t, cx, cy, currentRotation, selectedAreaCenter) ==
    LET u == TurnOffsets(t)
    IN SolverArguments(
           [k \in 1..Len(u) |-> Point(cx + Turned(u[k], t).x, cy + Turned(u[k], t).y)],
           [k \in 1..Len(u) |-> Point(cx + u[k].x, cy + u[k].y)],
           MatchesOf(<<10, 12, 14>>), currentRotation, selectedAreaCenter, t)

InImage(points) == \A k \in 1..Len(points) : points[k].x >= 0 /\ points[k].y >= 0

CurrentRotations == {0, 900}

RotationArguments ==
    { TurnedArguments(t, 250, 250, r, [x |-> Px(250), y |-> Px(250)]) :
          t \in KnownTurns, r \in CurrentRotations }
    \cup
    { a \in { TurnedArguments(t, 0, 0, r, NoCenter) : t \in KnownTurns, r \in CurrentRotations } :
          InImage(a.keypoints1) }
    \cup
    { SolverArguments(det.keypoints1, det.keypoints2, matchFeatures(det.matchesArray),
                      r, c, NoTurn) :
          det \in {DetTurned, DetMoved}, r \in CurrentRotations,
          c \in {AreaCenter(Area(100, 100, 50, 50)), NoCenter} }
    \cup
    { SolverArguments(DetFew.keypoints1, DetFew.keypoints2, MatchesOf(ds), r,
                      AreaCenter(Area(100, 100, 50, 50)), NoTurn) :
          ds \in {<<>>, <<10>>, <<10, 12>>}, r \in CurrentRotations \cup {-450} }
    \cup
    { SolverArguments(<<Point(250, 250), Point(250, 250), Point(250, 250)>>,
                      <<Point(250, 250), Point(250, 250), Point(250, 250)>>,
                      MatchesOf(<<10, 12, 14>>), r, [x |-> Px(250), y |-> Px(250)], NoTurn) :
          r \in CurrentRotations }

InitRotation ==
    /\ Idle
    /\ fnArg \in RotationArguments
    /\ fnRet = NoResult
    /\ app = NoApp

CallCalculateOptimalRotation ==
    /\ fnRet = NoResult
    /\ fnRet' = calculateOptimalRotation(fnArg.keypoints1, fnArg.keypoints2, fnArg.matches,
                                         fnArg.currentRotation, fnArg.selectedAreaCenter)
    /\ UNCHANGED <<app, fnArg, images, alignedImages, entry, pc, pending, detLog, log>>

NextRotation == CallCalculateOptimalRotation

SpecRotation == InitRotation /\ [][NextRotation]_vars

\* totalDistance of the candidate angle for the arguments in fnArg
TotalDistanceAt(angle) ==
    LET ms == fnArg.matches
    IN TotalDistance([k \in 1..Len(ms) |-> fnArg.keypoints1[ms[k].queryIdx]],
                     [k \in 1..Len(ms) |-> fnArg.keypoints2[ms[k].trainIdx]],
                     IF fnArg.selectedAreaCenter = NoCenter
                     THEN [x |-> 0, y |-> 0] ELSE fnArg.selectedAreaCenter,
                     angle)

\* C13: rotation search.  Given at least 3 correspondences, the returned
\* angle is, among the candidates of the inclusive range [-30, 30] degrees at
\* the step of 0.1 degrees, one that minimises the sum of the distances
\* between points1[i] and points2[i] rotated about the rotation centre (the
\* supplied centre, or the origin), and no smaller candidate attains that
\* minimum.
C13_RotationSearch ==
    (fnRet # NoResult /\ Len(fnArg.matches) >= 3) =>
        LET returned == TotalDistanceAt(fnRet.rotation)
        IN /\ fnRet.rotation \in -300..300
           /\ \A angle \in -300..300 :
                  LET totalDistance == TotalDistanceAt(angle)
                  IN /\ returned <= totalDistance
                     /\ angle < fnRet.rotation => returned < totalDistance

----------------------------------------------------------------------------
(* The rotation pass of a run against the solver's contract. *)

\* the call with this outcome reaches the filter and is left with fewer than
\* 3 correspondences
TooFew(det) ==
    det.cv /\ det.error = "" /\ Len(matchFeatures(det.matchesArray)) < 3

\* C14: insufficient correspondences.  Passed fewer than 3 correspondences,
\* calculateOptimalRotation returns the caller's current rotation unchanged;
\* and in a run, the second image of a pair left with fewer than 3
\* correspondences keeps the rotation it had.
C14_InsufficientCorrespondences ==
    (pc \in {"await", "done"} /\ entry \in {"all", "rotation"}) =>
        \A k \in 1..Len(detLog) :
            LET det == detLog[k].det
                image2 == images[detLog[k].pair + 2]
                prior == image2.transform.rotation
            IN TooFew(det) =>
                   /\ calculateOptimalRotation(det.keypoints1, det.keypoints2,
                          matchFeatures(det.matchesArray), prior,
                          AreaCenter(image2.selectedArea))
                          = [rotation |-> prior, translateY |-> 0]
                   /\ alignedImages[detLog[k].pair + 2].transform.rotation = prior

\* a full run is over in which the pair of an image turned by hand was left
\* with two correspondences after that image had been moved by pass 1
C14_Witness ==
    /\ pc = "done" /\ entry = "all"
    /\ \E k \in 1..Len(detLog) :
           /\ TooFew(detLog[k].det)
           /\ Len(matchFeatures(detLog[k].det.matchesArray)) = 2
           /\ images[detLog[k].pair + 2].transform.rotation = 900
           /\ alignedImages[detLog[k].pair + 2].transform.rotation = 900
           /\ ~SameTranslation(alignedImages[detLog[k].pair + 2].transform,
                               images[detLog[k].pair + 2].transform)

\* C15: rotation recovery.  For noise-free correspondences built by rotating
\* a point set by a known angle theta0 in [-30, 30] degrees about a known
\* centre, the solver run with that centre (its step is 0.1 degrees, below
\* 0.5) returns an angle within one step of theta0.  Both sides are in
\* hundredths of a degree.
C15_RotationRecovery ==
    (/\ fnRet # NoResult
     /\ fnArg.turn # NoTurn
     /\ Abs(fnArg.turn.theta0) <= 3000)
        => Abs(10 * fnRet.rotation - fnArg.turn.theta0) <= 10

\* a turn by -28.07 degrees about the centre (250, 250) has been recovered
C15_Witness ==
    /\ fnRet # NoResult
    /\ fnArg.turn # NoTurn
    /\ fnArg.turn.theta0 = -2807
    /\ fnArg.selectedAreaCenter # NoCenter
    /\ fnRet.rotation \in {-281, -280}

----------------------------------------------------------------------------
(* imageTransform.ts: combineTransforms(...transforms), a fold over its     *)
(* arguments from the identity.  The rotated translation is rounded to the  *)
(* nearest half pixel, the unit of every translation here.                  *)

\* n / d to the nearest integer, halves upwards (d > 0)
RoundDiv(n, d) == (2 * n + d) \div (2 * d)

\* mutant: the translation is rotated by the new rotation
CombineStep_newRotation(combined, transform) ==
    LET newRotation == combined.rotation + transform.rotation
        cos == Cos(newRotation)
        sin == Sin(newRotation)
        rotatedTranslateX ==
            RoundDiv(transform.translateX * cos - transform.translateY * sin, TrigScale)
        rotatedTranslateY ==
            RoundDiv(transform.translateX * sin + transform.translateY * cos, TrigScale)
    IN [scale |-> combined.scale * transform.scale,
        rotation |-> newRotation,
        translateX |-> combined.translateX + rotatedTranslateX,
        translateY |-> combined.translateY + rotatedTranslateY]

\* mutant: the translation is also scaled by the scale so far
CombineStep_scaledTranslation(combined, transform) ==
    LET newRotation == combined.rotation + transform.rotation
        cos == Cos(combined.rotation)
        sin == Sin(combined.rotation)
        rotatedTranslateX ==
            RoundDiv(transform.translateX * cos - transform.translateY * sin, TrigScale)
        rotatedTranslateY ==
            RoundDiv(transform.translateX * sin + transform.translateY * cos, TrigScale)
    IN [scale |-> combined.scale * transform.scale,
        rotation |-> newRotation,
        translateX |-> combined.translateX + combined.scale * rotatedTranslateX,
        translateY |-> combined.translateY + combined.scale * rotatedTranslateY]

\* mutant: the rotation so far is replaced instead of added to
CombineStep_rotationReplaced(combined, transform) ==
    LET newRotation == transform.rotation
        cos == Cos(combined.rotation)
        sin == Sin(combined.rotation)
        rotatedTranslateX ==
            RoundDiv(transform.translateX * cos - transform.translateY * sin, TrigScale)
        rotatedTranslateY ==
            RoundDiv(transform.translateX * sin + transform.translateY * cos, TrigScale)
    IN [scale |-> combined.scale * transform.scale,
        rotation |-> newRotation,
        translateX |-> combined.translateX + rotatedTranslateX,
        translateY |-> combined.translateY + rotatedTranslateY]

\* the body of the loop over the transforms
CombineStep(combined, transform) ==
    LET newRotation == combined.rotation + transform.rotation
        cos == Cos(combined.rotation)
        sin == Sin(combined.rotation)
        rotatedTranslateX ==
            RoundDiv(transform.translateX * cos - transform.translateY * sin, TrigScale)
        rotatedTranslateY ==
            RoundDiv(transform.translateX * sin + transform.translateY * cos, TrigScale)
    IN [scale |-> combined.scale * transform.scale,
        rotation |-> newRotation,
        translateX |-> combined.translateX + rotatedTranslateX,
        translateY |-> combined.translateY + rotatedTranslateY]

RECURSIVE CombineFrom(_, _)
CombineFrom(combined, transforms) ==
    IF transforms = <<>> THEN combined
    ELSE CombineFrom(CombineStep(combined, Head(transforms)), Tail(transforms))

combineTransforms(transforms) ==
    CombineFrom([scale |-> 1, rotation |-> 0, translateX |-> 0, translateY |-> 0],
                transforms)

\* most transforms handed to one call
MaxTransforms == 3

CombinedTransforms ==
    { DefaultTransform,
      Transform(2, 900, Px(3), Px(-2)),
      Transform(1, -100, Px(-10), Px(5)),
      Transform(1, 75, Px(40), 0),
      Transform(3, 0, 0, Px(7)),
      Transform(2, 1800, Px(-1), Px(-1)) }

InitCombine ==
    /\ Idle
    /\ fnArg \in [transforms : UNION { [1..n -> CombinedTransforms] : n \in 0..MaxTransforms }]
    /\ fnRet = NoResult
    /\ app = NoApp

CallCombineTransforms ==
    /\ fnRet = NoResult
    /\ fnRet' = [combined |-> combineTransforms(fnArg.transforms)]
    /\ UNCHANGED <<app, fnArg, images, alignedImages, entry, pc, pending, detLog, log>>

NextCombine == CallCombineTransforms

SpecCombine == InitCombine /\ [][NextCombine]_vars

\* C16: identity law of composition.  For every transform T and the identity
\* I = {scale 1, rotation 0, translate (0, 0)}, combineTransforms(I, T) = T
\* and combineTransforms(T, I) = T.
C16_IdentityLaw ==
    (fnRet # NoResult /\ Len(fnArg.transforms) = 2) =>
        LET I == [scale |-> 1, rotation |-> 0, translateX |-> 0, translateY |-> 0]
        IN /\ fnArg.transforms[1] = I => fnRet.combined = fnArg.transforms[2]
           /\ fnArg.transforms[2] = I => fnRet.combined = fnArg.transforms[1]

\* the identity has been combined after a turned, scaled and moved transform
C16_Witness ==
    /\ fnRet # NoResult
    /\ fnArg.transforms = <<Transform(1, -100, Px(-10), Px(5)), DefaultTransform>>
    /\ fnRet.combined = Transform(1, -100, Px(-10), Px(5))

\* C17: composition formula.  combineTransforms(a, b) has rotation
\* a.rotation + b.rotation, scale a.scale * b.scale, and translation
\* a.translate plus b.translate rotated by a.rotation, b's translation not
\* being scaled by a.scale.  The translation is compared in half pixels times
\* TrigScale, to within the half unit of rounding.
C17_CompositionFormula ==
    (fnRet # NoResult /\ Len(fnArg.transforms) = 2) =>
        LET a == fnArg.transforms[1]
            b == fnArg.transforms[2]
            c == fnRet.combined
            expectedX == a.translateX * TrigScale
                         + (b.translateX * Cos(a.rotation) - b.translateY * Sin(a.rotation))
            expectedY == a.translateY * TrigScale
                         + (b.translateX * Sin(a.rotation) + b.translateY * Cos(a.rotation))
        IN /\ c.rotation = a.rotation + b.rotation
           /\ c.scale = a.scale * b.scale
           /\ 2 * Abs(c.translateX * TrigScale - expectedX) <= TrigScale
           /\ 2 * Abs(c.translateY * TrigScale - expectedY) <= TrigScale

\* a moved transform has been combined after one of scale 2 that turns by 90
\* degrees: the move of 40 px along x is added along y, unscaled
C17_Witness ==
    /\ fnRet # NoResult
    /\ fnArg.transforms = <<Transform(2, 900, Px(3), Px(-2)), Transform(1, 75, Px(40), 0)>>
    /\ fnRet.combined = Transform(2, 975, Px(3), Px(38))

----------------------------------------------------------------------------
(* The reduced entry points as functions of the list and of what the        *)
(* collaborators do for each awaited pair.                                  *)

alignImagesByAreaOnly(list) ==
    IF Len(list) < 2 THEN list ELSE TranslationPass(list)

alignImagesByRotationOnly(list, detOf) ==
    IF Len(list) < 2 THEN list ELSE RotateLoop(list, 0, detOf)

\* C18: the full run equals its two reduced entry points in sequence.  For
\* every image list and every outcome of the detector and matcher per pair,
\* a finished alignAllImages has produced the transforms that
\* alignImagesByRotationOnly produces on the result of alignImagesByAreaOnly;
\* the two functions are what finished runs of the reduced entry points
\* produce.
C18_FullRunIsAreaThenRotation ==
    pc = "done" =>
        /\ entry = "all" =>
               alignedImages = alignImagesByRotationOnly(alignImagesByAreaOnly(images), DetOfLog)
        /\ entry = "area" => alignedImages = alignImagesByAreaOnly(images)
        /\ entry = "rotation" => alignedImages = alignImagesByRotationOnly(images, DetOfLog)

\* a full run over three images is over in which pass 1 moved the first and
\* the last image and pass 2 solved one pair and failed on the other
C18_Witness ==
    /\ pc = "done" /\ entry = "all"
    /\ Len(images) = 3
    /\ Len(detLog) = 2
    /\ ~Fails(detLog[1].det) /\ Fails(detLog[2].det)
    /\ ~SameTranslation(alignedImages[1].transform, images[1].transform)
    /\ ~SameTranslation(alignedImages[3].transform, images[3].transform)
    /\ alignedImages[2].transform.rotation # images[2].transform.rotation

\* a call of alignImages is outstanding
Outstanding == pc = "await"

\* while a call is outstanding or when one has settled, pass 1 is over: every
\* translation is the one the whole translation pass gives
TranslationPassOver ==
    (entry = "all" /\ (Outstanding \/ detLog # <<>>)) =>
        \A k \in 1..Len(images) :
            SameTranslation(alignedImages[k].transform, TranslationPass(images)[k].transform)

\* the calls so far were for pairs in ascending order, and the outstanding
\* one is for a later pair than all of them
CallsAscending ==
    /\ \A j, k \in 1..Len(detLog) : j < k => detLog[j].pair < detLog[k].pair
    /\ Outstanding =>
           /\ pending \in 0..(Len(images) - 2)
           /\ \A k \in 1..Len(detLog) : detLog[k].pair < pending
    /\ ~Outstanding => pending = -1

\* a call starts only when the entry point is called, with none made before,
\* or in the step in which the outstanding call settles; a settling call is
\* the outstanding one
OneCallAtATime ==
    /\ (pc' = "await" /\ pending' # pending) =>
           \/ pc = "start" /\ detLog = <<>> /\ detLog' = <<>>
           \/ /\ pc = "await" /\ pending' > pending
              /\ Len(detLog') = Len(detLog) + 1
              /\ detLog'[Len(detLog')].pair = pending
    /\ detLog' # detLog =>
           /\ pc = "await"
           /\ SubSeq(detLog', 1, Len(detLog)) = detLog
           /\ Len(detLog') = Len(detLog) + 1
           /\ detLog'[Len(detLog')].pair = pending
           /\ pending' # pending

\* C19: sequential pair processing.  Within one run the whole translation
\* pass is over before the first detector/matcher call; the calls are issued
\* for pairs in ascending index order; and the call for a pair starts only
\* when the previous pair's call has settled, successfully or not, so at most
\* one call is outstanding at any time.
C19_SequentialPairs ==
    /\ [](TranslationPassOver /\ CallsAscending)
    /\ [][OneCallAtATime]_vars

\* the second pair's call is outstanding after the first pair's call failed,
\* in a full run whose pass 1 moved the last image
C19_Witness ==
    /\ entry = "all" /\ pc = "await" /\ pending = 1
    /\ Len(detLog) = 1 /\ detLog[1].pair = 0 /\ Fails(detLog[1].det)
    /\ ~SameTranslation(alignedImages[3].transform, images[3].transform)

\* C20: bounded rotation result.  During and after any rotation pass, every
\* image whose pair's solve succeeded has a rotation within [-30, 30]
\* degrees, whatever rotation it had before the run.
C20_BoundedRotation ==
    (pc \in {"await", "done"} /\ entry \in {"all", "rotation"}) =>
        \A k \in 1..Len(detLog) :
            ~Fails(detLog[k].det) =>
                alignedImages[detLog[k].pair + 2].transform.rotation \in -300..300

\* a rotation-only run is over that solved the pair of an image turned by
\* hand to 90 degrees
C20_Witness ==
    /\ pc = "done" /\ entry = "rotation"
    /\ \E k \in 1..Len(detLog) :
           /\ ~Fails(detLog[k].det)
           /\ images[detLog[k].pair + 2].transform.rotation = 900
           /\ alignedImages[detLog[k].pair + 2].transform.rotation \in -300..300

----------------------------------------------------------------------------
(* What the entry points leave alone. *)

\* C21: the translation pass never changes rotation.  For every image,
\* processed or skipped, its rotation after alignImagesByAreaOnly, and after
\* pass 1 of alignAllImages (before any call of pass 2 has settled), is its
\* pre-run rotation; and the first image's rotation is never changed by any
\* entry point.
C21_TranslationKeepsRotation ==
    pc \in {"await", "done"} =>
        /\ (entry = "area" \/ (entry = "all" /\ detLog = <<>>)) =>
               \A k \in 1..Len(images) :
                   alignedImages[k].transform.rotation = images[k].transform.rotation
        /\ Len(images) >= 1 =>
               alignedImages[1].transform.rotation = images[1].transform.rotation

\* an area-only run is over that moved the second and the third image, turned
\* by hand to different rotations
C21_Witness ==
    /\ pc = "done" /\ entry = "area"
    /\ Len(images) = 3
    /\ images[1].transform.rotation = 0
    /\ images[2].transform.rotation = 900
    /\ images[3].transform.rotation = 0
    /\ ~SameTranslation(alignedImages[2].transform, images[2].transform)
    /\ ~SameTranslation(alignedImages[3].transform, images[3].transform)

\* the list the entry point is building has the input's images at the input's
\* places, apart from their transforms
OnlyTransformsReplaced ==
    pc \in {"await", "done"} =>
        /\ Len(alignedImages) = Len(images)
        /\ \A k \in 1..Len(images) :
               /\ alignedImages[k].id = images[k].id
               /\ alignedImages[k].width = images[k].width
               /\ alignedImages[k].height = images[k].height
               /\ alignedImages[k].selectedArea = images[k].selectedArea

\* C22: every entry point only replaces transforms.  The returned list has
\* the length and order of the input, each returned image has the id, width,
\* height and selected region of the input image at its index, and no step of
\* a run modifies the input image records.
C22_OnlyTransformsReplaced ==
    /\ []OnlyTransformsReplaced
    /\ [][images' = images]_vars

\* a full run over three images is over that gave every image a new transform
C22_Witness ==
    /\ pc = "done" /\ entry = "all"
    /\ Len(images) = 3
    /\ \A k \in 1..3 : alignedImages[k].transform # images[k].transform
    /\ \E k \in 1..3 : alignedImages[k].transform.rotation # images[k].transform.rotation

----------------------------------------------------------------------------
(* App.tsx: the component's state and its handlers.  app.images and         *)
(* app.originalImages are the two useState lists, app.isAligning the busy   *)
(* flag, app.cv whether window.cv is loaded, app.uploads the number of ids  *)
(* handed out, app.run the entry point call a handler is awaiting (with the *)
(* list it was called with) and app.alert the text of the last alert().     *)
(* A handler runs without interruption up to its await, and the awaited     *)
(* entry point touches nothing but its own copy of the list, so a handler   *)
(* is one step up to the await and one step from the await's settling on.   *)

\* most images ever uploaded
MaxUploads == 2

NoRun == [none |-> TRUE]

\* transforms set by hand in AlignmentControls
ManualTransforms == { Transform(2, 900, Px(3), Px(-2)) }

\* what the collaborators do during a run started from the App
AppDetections == { DetTurned, DetThrows }

\* newImages.push({ id, file, url, width, height, selectedArea: null, transform })
UploadedImage(id) ==
    ImageRecord(id, [width |-> 1000, height |-> 800, selectedArea |-> NoArea],
                DefaultTransform)

Ids(list) == { list[k].id : k \in 1..Len(list) }

EntryPointsIdle ==
    UNCHANGED <<images, alignedImages, entry, pc, pending, detLog, log, fnArg, fnRet>>

InitApp ==
    /\ Idle
    /\ fnArg = NoResult
    /\ fnRet = NoResult
    /\ app = [images |-> <<>>, originalImages |-> <<>>, isAligning |-> FALSE,
              cv |-> FALSE, uploads |-> 0, run |-> NoRun, alert |-> ""]

\* the opencv.js script finishes loading
OpenCvLoads ==
    /\ ~app.cv
    /\ app' = [app EXCEPT !.cv = TRUE]
    /\ EntryPointsIdle

\* handleImageUpload, from the last getImageDimensions on: one file
handleImageUpload ==
    /\ app.uploads < MaxUploads
    /\ LET newImage == UploadedImage(app.uploads + 1)
       IN app' = [app EXCEPT !.images = Append(@, newImage),
                             !.originalImages = Append(@, newImage),
                             !.uploads = @ + 1]
    /\ EntryPointsIdle

handleAreaSelect(imageId, area) ==
    /\ imageId \in Ids(app.images)
    /\ app' = [app EXCEPT !.images =
                   [k \in 1..Len(@) |-> IF @[k].id = imageId
                                        THEN [@[k] EXCEPT !.selectedArea = area]
                                        ELSE @[k]]]
    /\ EntryPointsIdle

handleTransformChange(imageId, transform) ==
    /\ imageId \in Ids(app.images)
    /\ app' = [app EXCEPT !.images =
                   [k \in 1..Len(@) |-> IF @[k].id = imageId
                                        THEN [@[k] EXCEPT !.transform = transform]
                                        ELSE @[k]]]
    /\ EntryPointsIdle

handleRemoveImage(imageId) ==
    /\ imageId \in Ids(app.images)
    /\ LET Others(img) == img.id # imageId
       IN app' = [app EXCEPT !.images = SelectSeq(@, Others),
                             !.originalImages = SelectSeq(@, Others)]
    /\ EntryPointsIdle

handleResetImages ==
    /\ IF Len(app.originalImages) = 0
       THEN app' = [app EXCEPT !.alert = "nothing to reset"]
       ELSE app' = [app EXCEPT !.images = app.originalImages, !.alert = "reset"]
    /\ EntryPointsIdle

\* mutant: the handler does not look for images without a region
AlignHandler_regionsNotChecked(entryPoint, needsCv) ==
    /\ ~app.isAligning
    /\ IF Len(app.images) < 2
       THEN app' = [app EXCEPT !.alert = "at least 2 images"]
       ELSE IF needsCv /\ ~app.cv
       THEN app' = [app EXCEPT !.isAligning = FALSE, !.alert = "OpenCV is not loaded"]
       ELSE app' = [app EXCEPT !.isAligning = TRUE,
                               !.run = [entry |-> entryPoint, images |-> app.images]]
    /\ EntryPointsIdle

\* handleAutoAlign, handleAlignByArea and handleAlignByRotation from the
\* click to the await of the entry point (or to the return before it); the
\* buttons are disabled while isAligning, and only handleAlignByArea goes
\* without the window.cv check.  On the OpenCV return setIsAligning(true) is
\* followed by the finally's setIsAligning(false) at once.
AlignHandler(entryPoint, needsCv) ==
    /\ ~app.isAligning
    /\ IF Len(app.images) < 2
       THEN app' = [app EXCEPT !.alert = "at least 2 images"]
       ELSE IF \E k \in 1..Len(app.images) : ~HasArea(app.images[k].selectedArea)
       THEN app' = [app EXCEPT !.alert = "every image needs a region"]
       ELSE IF needsCv /\ ~app.cv
       THEN app' = [app EXCEPT !.isAligning = FALSE, !.alert = "OpenCV is not loaded"]
       ELSE app' = [app EXCEPT !.isAligning = TRUE,
                               !.run = [entry |-> entryPoint, images |-> app.images]]
    /\ EntryPointsIdle

handleAutoAlign == AlignHandler("all", TRUE)

handleAlignByArea == AlignHandler("area", FALSE)

handleAlignByRotation == AlignHandler("rotation", TRUE)

\* the awaited entry point resolves: setImages(alignedImages), the alert,
\* and the finally's setIsAligning(false)
EntryPointResolves ==
    /\ app.run # NoRun
    /\ \E detOf \in [0..(Len(app.run.images) - 2) -> AppDetections] :
           LET alignedList ==
                   CASE app.run.entry = "all" -> alignAllImages(app.run.images, detOf)
                     [] app.run.entry = "area" -> alignImagesByAreaOnly(app.run.images)
                     [] app.run.entry = "rotation" ->
                            alignImagesByRotationOnly(app.run.images, detOf)
           IN app' = [app EXCEPT !.images = alignedList, !.isAligning = FALSE,
                                 !.run = NoRun, !.alert = "done"]
    /\ EntryPointsIdle

\* mutant: the flag is not released when the entry point rejects
EntryPointRejects_flagKept ==
    /\ app.run # NoRun
    /\ app' = [app EXCEPT !.run = NoRun, !.alert = "error"]
    /\ EntryPointsIdle

\* the awaited entry point rejects: the catch's alert and the finally
EntryPointRejects ==
    /\ app.run # NoRun
    /\ app' = [app EXCEPT !.isAligning = FALSE, !.run = NoRun, !.alert = "error"]
    /\ EntryPointsIdle

NextApp ==
    \/ OpenCvLoads
    \/ handleImageUpload
    \/ \E imageId \in 1..MaxUploads : handleAreaSelect(imageId, AppArea)
    \/ \E imageId \in 1..MaxUploads, transform \in ManualTransforms :
           handleTransformChange(imageId, transform)
    \/ \E imageId \in 1..MaxUploads : handleRemoveImage(imageId)
    \/ handleResetImages
    \/ handleAutoAlign
    \/ handleAlignByArea
    \/ handleAlignByRotation
    \/ EntryPointResolves
    \/ EntryPointRejects

SpecApp == InitApp /\ [][NextApp]_vars

\* the list passes the handlers' validation
Validated(list) == Len(list) >= 2 /\ AllHaveAreas(list)

\* a step of one of the three alignment handlers
AlignHandlerStep == handleAutoAlign \/ handleAlignByArea \/ handleAlignByRotation

\* C23: UI input validation.  No alignment entry point is invoked from the
\* App handlers unless there are at least 2 images and every image has a
\* region: an entry point call in flight was made with such a list, it is
\* made only in a step from a state whose images are such a list, and a
\* handler step from any other state changes neither images nor isAligning.
C23_InputValidation ==
    /\ [](app.run # NoRun => Validated(app.run.images))
    /\ [][(app.run = NoRun /\ app'.run # NoRun)
              => (Validated(app.images) /\ app'.run.images = app.images)]_vars
    /\ [][(AlignHandlerStep /\ ~Validated(app.images))
              => /\ app'.images = app.images
                 /\ app'.isAligning = app.isAligning
                 /\ app'.run = NoRun]_vars

\* an entry point call is in flight on two images with regions, made after a
\* click that was turned down for a missing region
C23_Witness ==
    /\ app.run # NoRun
    /\ app.run.entry = "rotation"
    /\ Len(app.run.images) = 2
    /\ app.alert = "every image needs a region"
    /\ app.isAligning

----------------------------------------------------------------------------
(* adjustImageList(images, requiredCount) of the texture atlas export: the  *)
(* list is cut or padded to the number of cells.  Images are told apart by  *)
(* their ids.                                                               *)

\* Math.ceil(n / 2) for n >= 0
CeilHalf(n) == (n + 1) \div 2

\* k times result.unshift(image), or k times result.push(image)
Repeated(image, k) == [j \in 1..k |-> image]

\* mutant: the larger half is taken from, or added to, the end
adjustImageList_floorAtStart(imageList, requiredCount) ==
    IF Len(imageList) = requiredCount THEN imageList
    ELSE IF Len(imageList) > requiredCount
    THEN LET excess == Len(imageList) - requiredCount
             removeFromStart == excess \div 2
             removeFromEnd == excess - removeFromStart
         IN SubSeq(imageList, removeFromStart + 1, Len(imageList) - removeFromEnd)
    ELSE LET shortage == requiredCount - Len(imageList)
             addToStart == shortage \div 2
             addToEnd == shortage - addToStart
         IN Repeated(imageList[1], addToStart) \o imageList
                \o Repeated(imageList[Len(imageList)], addToEnd)

adjustImageList(imageList, requiredCount) ==
    IF Len(imageList) = requiredCount THEN imageList
    ELSE IF Len(imageList) > requiredCount
    THEN LET excess == Len(imageList) - requiredCount
             removeFromStart == CeilHalf(excess)
             removeFromEnd == excess - removeFromStart
         IN SubSeq(imageList, removeFromStart + 1, Len(imageList) - removeFromEnd)
    ELSE LET shortage == requiredCount - Len(imageList)
             addToStart == CeilHalf(shortage)
             addToEnd == shortage - addToStart
         IN Repeated(imageList[1], addToStart) \o imageList
                \o Repeated(imageList[Len(imageList)], addToEnd)

\* longest list handed to adjustImageList
MaxAtlasImages == 6

\* largest requiredCount
MaxRequiredCount == 9

AdjustArguments ==
    { [images |-> [k \in 1..n |-> first + k], requiredCount |-> c] :
          n \in 1..MaxAtlasImages, first \in {0, 10}, c \in 1..MaxRequiredCount }

InitAdjust ==
    /\ Idle
    /\ fnArg \in AdjustArguments
    /\ fnRet = NoResult
    /\ app = NoApp

CallAdjustImageList ==
    /\ fnRet = NoResult
    /\ fnRet' = [adjusted |-> adjustImageList(fnArg.images, fnArg.requiredCount)]
    /\ UNCHANGED <<app, fnArg, images, alignedImages, entry, pc, pending, detLog, log>>

NextAdjust == CallAdjustImageList

SpecAdjust == InitAdjust /\ [][NextAdjust]_vars

\* C24: adjustImageList.  For a non-empty list and requiredCount >= 1 the
\* result has exactly requiredCount elements in the original relative order:
\* with too many images it is the contiguous slice that drops ceil(excess/2)
\* images from the front and the rest of the excess from the back; with too
\* few it is the list with the first image repeated ceil(shortage/2) times in
\* front and the last image repeated the remaining times at the end; with an
\* exact match it is the input.
C24_AdjustImageList ==
    fnRet # NoResult =>
        LET list == fnArg.images
            n == Len(list)
            c == fnArg.requiredCount
            r == fnRet.adjusted
        IN /\ Len(r) = c
           /\ n = c => r = list
           /\ n > c =>
                  LET front == ((n - c) + 1) \div 2
                  IN \A j \in 1..c : r[j] = list[front + j]
           /\ n < c =>
                  LET front == ((c - n) + 1) \div 2
                  IN /\ \A j \in 1..front : r[j] = list[1]
                     /\ \A j \in 1..n : r[front + j] = list[j]
                     /\ \A j \in (front + n + 1)..c : r[j] = list[n]

\* two images have been padded to five: two copies of the first in front and
\* one copy of the last at the end
C24_Witness ==
    /\ fnRet # NoResult
    /\ fnArg.images = <<11, 12>>
    /\ fnArg.requiredCount = 5
    /\ fnRet.adjusted = <<11, 11, 11, 12, 12>>

----------------------------------------------------------------------------
(* The translation pass in terms of each image alone. *)

\* what centring gives an image on its own
OwnCentring(image) ==
    calculateCenterImageTransform(image.width, image.height, image.transform,
                                  image.selectedArea)

\* C25: translation is solved from the already-updated predecessor.  When
\* every image has a region, after a translation pass that ran (two or more
\* images; alignImagesByAreaOnly, or pass 1 of alignAllImages, whose pass 2
\* leaves translations alone) each image's translation is width/2 - region
\* centre x, height/2 - region centre y, the value centring gives that image on
\* its own, so it depends on no image's pre-run translation.
C25_TranslationFromPredecessor ==
    (/\ pc \in {"await", "done"}
     /\ entry \in {"area", "all"}
     /\ Len(images) >= 2
     /\ AllHaveAreas(images))
        => \A k \in 1..Len(images) :
               LET area == images[k].selectedArea
               IN /\ alignedImages[k].transform.translateX
                        = Half(images[k].width) - (Px(area.x) + Half(area.width))
                  /\ alignedImages[k].transform.translateY
                        = Half(images[k].height) - (Px(area.y) + Half(area.height))
                  /\ SameTranslation(alignedImages[k].transform, OwnCentring(images[k]))

\* an area-only run is over three images with regions, the first two of them
\* moved by hand before the run and the second with a region off the first's
C25_Witness ==
    /\ pc = "done" /\ entry = "area"
    /\ Len(images) = 3
    /\ AllHaveAreas(images)
    /\ images[1].transform.translateX # 0
    /\ images[2].transform.translateX # 0
    /\ images[2].selectedArea # images[1].selectedArea
    /\ ~SameTranslation(alignedImages[3].transform, images[3].transform)

\* C26: idempotence of the translation pass.  For every image list, whatever
\* its pre-run transforms and whichever images lack regions,
\* alignImagesByAreaOnly applied to its own output returns that output.
C26_TranslationIdempotent ==
    (pc = "done" /\ entry = "area")
        => alignImagesByAreaOnly(alignedImages) = alignedImages

\* an area-only run is over three images of which the first has no region: the
\* third was placed against the second, which kept its pre-run translation
C26_Witness ==
    /\ pc = "done" /\ entry = "area"
    /\ Len(images) = 3
    /\ ~HasArea(images[1].selectedArea)
    /\ HasArea(images[2].selectedArea)
    /\ HasArea(images[3].selectedArea)
    /\ images[2].transform.translateX # 0
    /\ alignedImages[2] = images[2]
    /\ alignedImages[3].transform # images[3].transform

----------------------------------------------------------------------------
(* The fold and its groupings. *)

\* combineTransforms(combineTransforms(a, b), c)
LeftGrouped(a, b, c) == combineTransforms(<<combineTransforms(<<a, b>>), c>>)

\* combineTransforms(a, combineTransforms(b, c))
RightGrouped(a, b, c) == combineTransforms(<<a, combineTransforms(<<b, c>>)>>)

\* the distance between two numbers
AbsDiff(m, n) == IF m >= n THEN m - n ELSE n - m

\* both rotations are whole quarter turns, which rotate a translation without
\* rounding
QuarterTurned(a, b) == a.rotation % 900 = 0 /\ b.rotation % 900 = 0

----------------------------------------------------------------------------
(* The median of the distance filter. *)

\* the distance at 0-based place i of the distances in ascending order, by
\* counting: at most i distances are strictly below it and more than i are at
\* or below it
PlaceAscending(ds, i) ==
    CHOOSE m \in { ds[k] : k \in 1..Len(ds) } :
        /\ Cardinality({ k \in 1..Len(ds) : ds[k] < m }) <= i
        /\ Cardinality({ k \in 1..Len(ds) : ds[k] <= m }) > i

\* C28: median choice in the filter.  The median the distance filter's
\* threshold is made from is the distance at index floor(n/2) of the n
\* distances in ascending order; for an even n that is the upper of the two
\* middle values, not their mean, and the matches kept by the distance filter
\* are those below min(50, 0.8 times that value).
C28_MedianChoice ==
    (fnRet # NoResult /\ fnArg.matchesArray # <<>>) =>
        LET raw == fnArg.matchesArray
            n == Len(raw)
            ds == Distances(raw)
            m == medianDistance(raw)
        IN /\ m = PlaceAscending(ds, n \div 2)
           /\ n % 2 = 0 =>
                  LET lower == PlaceAscending(ds, n \div 2 - 1)
                  IN /\ lower <= m
                     /\ lower < m => 2 * m > lower + m
           /\ \A k \in 1..n :
                  (\E j \in 1..Len(fnRet.distanceFiltered) :
                       fnRet.distanceFiltered[j] = raw[k])
                      <=> 10 * raw[k].distance < Min(10 * 50, 8 * m)

\* four matches at distances 60, 10, 100 and 20 have been filtered with the
\* median 60, the upper of the middle values 20 and 60 (mean 40)
C28_Witness ==
    /\ fnRet # NoResult
    /\ Distances(fnArg.matchesArray) = <<60, 10, 100, 20>>
    /\ medianDistance(fnArg.matchesArray) = 60
    /\ PlaceAscending(Distances(fnArg.matchesArray), 1) = 20
    /\ Distances(fnRet.distanceFiltered) = <<10, 20>>

----------------------------------------------------------------------------
(* The busy flag.  The entry point awaited by a handler settles: its loops  *)
(* are finite and every promise it awaits resolves or rejects (imageToMat   *)
(* on the image's load or error event), hence the weak fairness on the      *)
(* handler's continuation after the await.                                  *)

\* a step in which the awaited entry point call ends; the steps of NextApp
\* that end it are those of EntryPointResolves and EntryPointRejects
EntryPointCallEnds == app.run # NoRun /\ app'.run = NoRun

\* the handler's continuation after the await, however the call ended
EntryPointSettles == EntryPointRejects \/ (EntryPointCallEnds /\ EntryPointsIdle)

SpecAppLive == SpecApp /\ WF_vars(EntryPointSettles)

\* a handler step that got past the validation and returned without calling
\* an entry point: the return for OpenCV not being loaded
OpenCvReturn ==
    AlignHandlerStep /\ Validated(app.images) /\ app'.run = NoRun

\* C29: the busy flag is always released.  Every invocation of
\* handleAutoAlign, handleAlignByArea or handleAlignByRotation that sets
\* isAligning eventually sets it back: the flag is up exactly while the
\* awaited entry point is in flight, whenever it is up it comes down again,
\* the step that ends the call (resolved or rejected) brings it down, and the
\* return for OpenCV not being loaded leaves it down.
C29_BusyFlagReleased ==
    /\ [](app.isAligning <=> app.run # NoRun)
    /\ app.isAligning ~> ~app.isAligning
    /\ [][EntryPointCallEnds => ~app'.isAligning]_vars
    /\ [][OpenCvReturn => ~app'.isAligning]_vars

\* the flag is down again after a run that threw
C29_Witness ==
    /\ app.alert = "error"
    /\ ~app.isAligning
    /\ app.run = NoRun
    /\ Validated(app.images)

----------------------------------------------------------------------------
(* The working list and its backup. *)

\* C30: working list and backup stay in step.  After any interleaving of
\* upload, removal, reset, region selection, manual transform change and the
\* start and completion of an alignment run, the ids in images are the ids in
\* originalImages.
C30_ListsInStep ==
    Ids(app.images) = Ids(app.originalImages)

====
